---- MODULE Spec2Model ----
(***************************************************************************)
(* Model of the conversational edit orchestrator of the recipe server:     *)
(* agentEditRecipe (apps/server/src/agent.ts), one turn of a bounded       *)
(* tool-calling dialogue with a text-generation model; and of what is      *)
(* around it: computeChangeset and the handlers of the recipe store        *)
(* (apps/server/src/index.ts, db.ts), the import stream, and the edit page *)
(* of the web client (apps/web/src). Each part has its own specification:  *)
(* Spec and FairSpec, PairSpec, ChangesetSpec, StoreSpec, ImportSpec,      *)
(* PageSpec and PageFairSpec.                                              *)
(*                                                                         *)
(* JavaScript values are modelled as follows.                              *)
(*  - An object is a function from the names of its own keys to values;    *)
(*    a key that is absent is not in the DOMAIN.                           *)
(*  - Strings are strings; numbers (servings, prepTime, cookTime,          *)
(*    quantity) are written as numerals in strings, since no operation of  *)
(*    the orchestrator computes with them; a tags array is written as its  *)
(*    joined string, since no operation looks inside it.                   *)
(*  - `undefined` as the value of a key is the token Undefined.            *)
(*  - `string | null` is a sequence of at most one string (<<>> is null).  *)
(*  - ingredients and steps are sequences.                                 *)
(***************************************************************************)
EXTENDS Integers, Sequences, FiniteSets, TLC

VARIABLES
    currentRecipe,          \* agent.ts:56  the recipe passed by the caller
    finalRecipe,            \* agent.ts:67  the draft
    recipeMutated,          \* agent.ts:68
    clarificationQuestion,  \* agent.ts:66
    signal,                 \* agent.ts:63  abortController.signal {aborted, reason}
    timer,                  \* agent.ts:64  the setTimeout: armed / fired / cleared
    events,                 \* every event passed to onEvent, in order
    pc,                     \* position of the turn: model / tools / settled / done
    step,                   \* model rounds (generateText steps) answered so far
    outcome,                \* how generateText ended: pending / resolved / rejected
    returned,               \* how agentEditRecipe ended: pending / returned / threw
    calls,                  \* history: the tool invocations executed, in order
    original,               \* index.ts:54  computeChangeset's first argument
    edited,                 \* index.ts:54  computeChangeset's second argument
    diffs,                  \* index.ts:74  what computeChangeset returned
    changesetPc,            \* position of the computeChangeset call: input / returned
    recipes,                \* db.ts:16-26  table recipes, by id
    versions,               \* db.ts:28-38  table recipe_versions, by id
    tags,                   \* db.ts:40-46  table tags, by id
    nextId,                 \* the ids and times handed out so far (newId, now)
    requests,               \* the requests begun so far
    commits,                \* handleCommitVersion calls suspended at an await
    imports,                \* handleImport calls suspended at an await
    responses,              \* history: the answer to each request
    replaced,               \* history: the default version each commit replaced
    streams,                \* index.ts:88  the event stream of each import: events, state
    files,                  \* the image files in IMAGES_DIR
    turns,                  \* the agentEditRecipe calls under way at once, by caller
    page,                   \* RecipeListPage.tsx:158-168  the state of the edit page
    previews                \* api.ts:69  the edit-preview requests of the page, in order

agentVars == <<currentRecipe, finalRecipe, recipeMutated, clarificationQuestion, signal,
               timer, events, pc, step, outcome, returned, calls>>

changesetVars == <<original, edited, diffs, changesetPc>>

storeVars == <<recipes, versions, tags, nextId, requests, commits, imports, responses, replaced,
               streams, files>>

pairVars == <<turns>>

pageVars == <<page, previews>>

\* What the handlers of the recipe store never touch.
nonStoreVars == <<agentVars, changesetVars, pairVars, pageVars>>

\* What a turn of agentEditRecipe never touches.
nonAgentVars == <<changesetVars, storeVars, pairVars, pageVars>>

\* What a call of computeChangeset never touches.
nonChangesetVars == <<agentVars, storeVars, pairVars, pageVars>>

vars == <<agentVars, nonAgentVars>>

(***************************************************************************)
(* Bounds and program constants                                            *)
(***************************************************************************)

\* Bound of the model: tool invocations executed in one turn.
MaxCalls == 3

\* agent.ts:83  stopWhen: stepCountIs(5)
StepCap == 5

Undefined == "undefined"

TimedOutMessage == "Edit timed out. Please try a simpler request."
UnprocessedMessage == "Agent could not process this request. Please try rephrasing."

(***************************************************************************)
(* The data model (packages/recipe-core/src/index.ts)                      *)
(***************************************************************************)

IngredientKeys == {"name", "quantity", "unit", "preparation"}

MetaKeys == {"title", "servings", "prepTime", "cookTime", "cuisine", "category", "tags"}

RecipeKeys == MetaKeys \cup {"ingredients", "steps", "sourceUrl", "scrapedAt"}

\* agent.ts:15  RecipeSchema.omit({ scrapedAt: true, sourceUrl: true })
AIRecipeKeys == RecipeKeys \ {"scrapedAt", "sourceUrl"}

\* { ...a, ...b }: the keys of both, b's value where both have the key.
Spread(a, b) == [k \in DOMAIN a \cup DOMAIN b |-> IF k \in DOMAIN b THEN b[k] ELSE a[k]]

\* A zod object schema parses an object by keeping the schema's keys only.
StripTo(keys, obj) == [k \in DOMAIN obj \cap keys |-> obj[k]]

ParseIngredients(list) == [i \in 1..Len(list) |-> StripTo(IngredientKeys, list[i])]

ParseMetadata(raw) == StripTo(MetaKeys, raw)

ParseAIRecipe(raw) ==
    LET r == StripTo(AIRecipeKeys, raw)
    IN  [k \in DOMAIN r |-> IF k = "ingredients" THEN ParseIngredients(r[k]) ELSE r[k]]

(***************************************************************************)
(* Inputs: the recipes a caller passes and the tool inputs a model sends.  *)
(***************************************************************************)

Egg == [name |-> "Egg", quantity |-> "2"]
Flour == [name |-> "flour", quantity |-> "200", unit |-> "g"]
Milk == [name |-> "milk", unit |-> "dl", preparation |-> "warm", note |-> "extra key"]

FullRecipe ==
    [title |-> "Pancakes", servings |-> "4", prepTime |-> "10", cookTime |-> "20",
     ingredients |-> <<Egg, Flour>>, steps |-> <<"mix", "fry">>, tags |-> "breakfast",
     cuisine |-> "French", category |-> "Breakfast",
     sourceUrl |-> "https://a.example/pancakes", scrapedAt |-> "2024-01-01T00:00:00Z"]

MinimalRecipe ==
    [title |-> "Toast", ingredients |-> <<Flour>>, steps |-> <<"toast">>,
     sourceUrl |-> "https://b.example/toast", scrapedAt |-> "2024-02-02T00:00:00Z"]

InputRecipes == {FullRecipe, MinimalRecipe}

IngredientInputs == {<<>>, <<Flour, Milk>>}

StepsInputs == {<<>>, <<"mix", "rest", "fry">>}

MetadataInputs ==
    { [title |-> "New", servings |-> Undefined, sourceUrl |-> "https://evil.example/"],
      [servings |-> "2", cookTime |-> "5", tags |-> "quick", cuisine |-> Undefined],
      [sourceUrl |-> "https://evil.example/"] }

ReviewInputs ==
    { [title |-> "Crepes", ingredients |-> <<Milk>>, steps |-> <<"whisk">>,
       sourceUrl |-> "https://evil.example/", scrapedAt |-> "1999-01-01T00:00:00Z"],
      [title |-> "Waffles", servings |-> "6", category |-> "Dessert",
       ingredients |-> <<Egg, Flour>>, steps |-> <<"mix", "bake">>] }

QuestionInputs == {"", "Which ingredient?"}

(***************************************************************************)
(* Events (agent.ts:22-26)                                                 *)
(***************************************************************************)

Progress(label) == [type |-> "progress", label |-> label]
Clarification(question) == [type |-> "clarification", question |-> question]
Result(recipe) == [type |-> "result", recipe |-> recipe]
Error(message) == [type |-> "error", message |-> message]

IsTerminal(e) == e.type \in {"clarification", "result", "error"}

(***************************************************************************)
(* The closure state of one turn, as the tools see it                      *)
(***************************************************************************)

Locals ==
    [finalRecipe |-> finalRecipe, recipeMutated |-> recipeMutated,
     clarificationQuestion |-> clarificationQuestion, signal |-> signal, events |-> events]

\* onEvent(e): the caller's callback receives e.
OnEvent(L, e) == [L EXCEPT !.events = Append(@, e)]

\* AbortController.abort(reason): the first abort sets the reason, later ones do nothing.
Abort(sig, reason) == IF sig.aborted THEN sig ELSE [aborted |-> TRUE, reason |-> reason]

\* Variant: the supplied list is appended to the draft's list instead of replacing it.
UpdateIngredientsAppends(L, ingredients) ==
    OnEvent([L EXCEPT !.finalRecipe =
                          Spread(@, [ingredients |-> L.finalRecipe.ingredients \o ingredients]),
                      !.recipeMutated = TRUE],
            Progress("Updating ingredients..."))

\* agent.ts:96-101
UpdateIngredients(L, ingredients) ==
    OnEvent([L EXCEPT !.finalRecipe = Spread(@, [ingredients |-> ingredients]),
                      !.recipeMutated = TRUE],
            Progress("Updating ingredients..."))

\* Variant: the steps are set on a copy of currentRecipe instead of the draft.
UpdateStepsOfCurrentRecipe(L, steps) ==
    OnEvent([L EXCEPT !.finalRecipe = Spread(currentRecipe, [steps |-> steps]),
                      !.recipeMutated = TRUE],
            Progress("Updating steps..."))

\* agent.ts:108-113
UpdateSteps(L, steps) ==
    OnEvent([L EXCEPT !.finalRecipe = Spread(@, [steps |-> steps]),
                      !.recipeMutated = TRUE],
            Progress("Updating steps..."))

\* Variant: the entries are not filtered.
AllEntries(fields) == fields

\* agent.ts:127  Object.fromEntries(Object.entries(fields).filter(([, v]) => v !== undefined))
DefinedEntries(fields) == [k \in {x \in DOMAIN fields : fields[x] # Undefined} |-> fields[k]]

\* Variant: no progress event when the input defines no field.
UpdateMetadataQuietWhenEmpty(L, fields) ==
    IF DOMAIN DefinedEntries(fields) = {}
    THEN [L EXCEPT !.recipeMutated = TRUE]
    ELSE OnEvent([L EXCEPT !.finalRecipe = Spread(@, DefinedEntries(fields)),
                           !.recipeMutated = TRUE],
                 Progress("Updating recipe details..."))

\* Variant: a partial effect, only the title of the supplied fields is merged.
UpdateMetadataTitleOnly(L, fields) ==
    OnEvent([L EXCEPT !.finalRecipe = Spread(@, StripTo({"title"}, DefinedEntries(fields))),
                      !.recipeMutated = TRUE],
            Progress("Updating recipe details..."))

\* agent.ts:126-132
UpdateMetadata(L, fields) ==
    OnEvent([L EXCEPT !.finalRecipe = Spread(@, DefinedEntries(fields)),
                      !.recipeMutated = TRUE],
            Progress("Updating recipe details..."))

\* Variant: the tool emits the clarification event itself.
AskClarificationEmits(L, question) ==
    OnEvent([L EXCEPT !.clarificationQuestion = <<question>>,
                      !.signal = Abort(@, "clarification")],
            Clarification(question))

\* agent.ts:140-144
AskClarification(L, question) ==
    [L EXCEPT !.clarificationQuestion = <<question>>,
              !.signal = Abort(@, "clarification")]

\* Variant: the draft becomes the given recipe as it is.
ReviewRecipeAsGiven(L, recipe) ==
    OnEvent([L EXCEPT !.finalRecipe = recipe, !.recipeMutated = TRUE],
            Progress("Reviewing consistency..."))

\* Variant: the given recipe is merged over the draft.
ReviewRecipeMerges(L, recipe) ==
    OnEvent([L EXCEPT !.finalRecipe =
                          Spread(Spread(@, recipe),
                                 [sourceUrl |-> currentRecipe.sourceUrl,
                                  scrapedAt |-> currentRecipe.scrapedAt]),
                      !.recipeMutated = TRUE],
            Progress("Reviewing consistency..."))

\* agent.ts:152-157
ReviewRecipe(L, recipe) ==
    OnEvent([L EXCEPT !.finalRecipe =
                          Spread(recipe, [sourceUrl |-> currentRecipe.sourceUrl,
                                          scrapedAt |-> currentRecipe.scrapedAt]),
                      !.recipeMutated = TRUE],
            Progress("Reviewing consistency..."))

(***************************************************************************)
(* The end of the turn (agent.ts:161-175)                                  *)
(***************************************************************************)

\* Variant: no catch clause, a rejection leaves the function.
AfterTryRethrows(how) == IF how = "rejected" THEN "rethrow" ELSE "continue"

\* agent.ts:161-165  catch {} swallows every rejection of generateText.
AfterTry(how) == "continue"

\* if (clarificationQuestion): null and the empty string are falsy.
Truthy(q) == q # <<>> /\ q[1] # ""

\* Variant: recipeMutated is not looked at.
ClassifyIgnoresMutated(L) ==
    IF L.clarificationQuestion # <<>> /\ L.clarificationQuestion[1] # ""
    THEN Clarification(L.clarificationQuestion[1])
    ELSE IF L.signal.aborted /\ L.signal.reason = "timeout" THEN Error(TimedOutMessage)
    ELSE Result(L.finalRecipe)

\* Variant: a mutated draft is surfaced before the timeout is looked at.
ClassifyMutatedBeforeTimeout(L) ==
    IF L.clarificationQuestion # <<>> /\ L.clarificationQuestion[1] # ""
    THEN Clarification(L.clarificationQuestion[1])
    ELSE IF L.recipeMutated THEN Result(L.finalRecipe)
    ELSE IF L.signal.aborted /\ L.signal.reason = "timeout" THEN Error(TimedOutMessage)
    ELSE Error(UnprocessedMessage)

\* Variant: a turn without a mutation is reported as timed out.
ClassifyUnmutatedAsTimeout(L) ==
    IF L.clarificationQuestion # <<>> /\ L.clarificationQuestion[1] # ""
    THEN Clarification(L.clarificationQuestion[1])
    ELSE IF L.signal.aborted /\ L.signal.reason = "timeout" THEN Error(TimedOutMessage)
    ELSE IF ~L.recipeMutated THEN Error(TimedOutMessage)
    ELSE Result(L.finalRecipe)

\* Variant: whether the draft was mutated is decided by comparing it with the input.
ClassifyByContent(L) ==
    IF L.clarificationQuestion # <<>> /\ L.clarificationQuestion[1] # ""
    THEN Clarification(L.clarificationQuestion[1])
    ELSE IF L.signal.aborted /\ L.signal.reason = "timeout" THEN Error(TimedOutMessage)
    ELSE IF L.finalRecipe = currentRecipe THEN Error(UnprocessedMessage)
    ELSE Result(L.finalRecipe)

\* agent.ts:167-175
Classify(L) ==
    IF Truthy(L.clarificationQuestion) THEN Clarification(L.clarificationQuestion[1])
    ELSE IF L.signal.aborted /\ L.signal.reason = "timeout" THEN Error(TimedOutMessage)
    ELSE IF ~L.recipeMutated THEN Error(UnprocessedMessage)
    ELSE Result(L.finalRecipe)

(***************************************************************************)
(* The turn as a state machine                                             *)
(*                                                                         *)
(* generateText (the "ai" package) is the environment. It calls the model  *)
(* at most StepCap times; an answer with tool calls is a round, whose      *)
(* calls are executed one after the other in the order the model issued    *)
(* them. Every execute function is synchronous up to its return, so an     *)
(* invocation is one step. The abort signal is looked at by the model      *)
(* call only: the calls of a round already answered are executed also      *)
(* after ask_clarification aborted, and the next model call rejects. The   *)
(* timer callback is a task of its own, so it runs only while the turn     *)
(* waits for the model, never between the tool calls of a round nor        *)
(* between the settling of generateText and the classifier.                *)
(***************************************************************************)

\* No computeChangeset call is under way.
ChangesetIdle ==
    /\ original = <<>>
    /\ edited = <<>>
    /\ diffs = <<>>
    /\ changesetPc = "idle"

\* db.ts:16-38: the tables are empty and no request has arrived.
StoreEmpty ==
    /\ recipes = <<>>
    /\ versions = <<>>
    /\ tags = <<>>
    /\ nextId = 1
    /\ requests = 0
    /\ commits = <<>>
    /\ imports = <<>>
    /\ responses = <<>>
    /\ replaced = <<>>
    /\ streams = <<>>
    /\ files = {}

\* No second caller: the turn of the agent variables is the only one.
PairIdle == turns = <<>>

\* RecipeListPage.tsx:158-168: the edit page as it is first rendered, with no
\* request made.
PageIdle ==
    /\ page = [prompt |-> <<>>, usedPrompt |-> <<>>, proposed |-> <<>>, generating |-> FALSE,
               error |-> "", activeTab |-> "edited", messages |-> <<>>,
               progressHints |-> <<>>, awaitingClarification |-> FALSE]
    /\ previews = <<>>

\* agent.ts:62-81: the state when generateText has been called.
Init ==
    /\ ChangesetIdle
    /\ StoreEmpty
    /\ PairIdle
    /\ PageIdle
    /\ currentRecipe \in InputRecipes
    /\ finalRecipe = Spread(<<>>, currentRecipe)
    /\ recipeMutated = FALSE
    /\ clarificationQuestion = <<>>
    /\ signal = [aborted |-> FALSE, reason |-> "none"]
    /\ timer = "armed"
    /\ events = <<>>
    /\ pc = "model"
    /\ step = 0
    /\ outcome = "pending"
    /\ returned = "pending"
    /\ calls = <<>>

SetLocals(L) ==
    /\ finalRecipe' = L.finalRecipe
    /\ recipeMutated' = L.recipeMutated
    /\ clarificationQuestion' = L.clarificationQuestion
    /\ signal' = L.signal
    /\ events' = L.events

Invoke(tool, raw) ==
    /\ pc = "tools"
    /\ Len(calls) < MaxCalls
    /\ calls' = Append(calls, [tool |-> tool, input |-> raw])
    /\ UNCHANGED <<currentRecipe, timer, pc, step, outcome, returned>>
    /\ UNCHANGED nonAgentVars

\* Variant: an answer of the model is taken also after the signal was aborted.
ModelCallsToolsAfterAbort ==
    /\ pc = "model"
    /\ step < StepCap
    /\ step' = step + 1
    /\ pc' = "tools"
    /\ UNCHANGED <<currentRecipe, finalRecipe, recipeMutated, clarificationQuestion,
                   signal, timer, events, outcome, returned, calls>>
    /\ UNCHANGED nonAgentVars

\* The model answers a round with tool calls; the step count rises.
ModelCallsTools ==
    /\ pc = "model"
    /\ ~signal.aborted
    /\ step < StepCap
    /\ step' = step + 1
    /\ pc' = "tools"
    /\ UNCHANGED <<currentRecipe, finalRecipe, recipeMutated, clarificationQuestion,
                   signal, timer, events, outcome, returned, calls>>
    /\ UNCHANGED nonAgentVars

CallUpdateIngredients ==
    \E raw \in IngredientInputs :
        /\ Invoke("update_ingredients", raw)
        /\ SetLocals(UpdateIngredients(Locals, ParseIngredients(raw)))

CallUpdateSteps ==
    \E raw \in StepsInputs :
        /\ Invoke("update_steps", raw)
        /\ SetLocals(UpdateSteps(Locals, raw))

CallUpdateMetadata ==
    \E raw \in MetadataInputs :
        /\ Invoke("update_metadata", raw)
        /\ SetLocals(UpdateMetadata(Locals, ParseMetadata(raw)))

CallAskClarification ==
    \E raw \in QuestionInputs :
        /\ Invoke("ask_clarification", raw)
        /\ SetLocals(AskClarification(Locals, raw))

CallReviewRecipe ==
    \E raw \in ReviewInputs :
        /\ Invoke("review_recipe", raw)
        /\ SetLocals(ReviewRecipe(Locals, ParseAIRecipe(raw)))

\* Variant: the step count is not looked at, the model is called again after
\* every round.
EndRoundIgnoresCap ==
    /\ pc = "tools"
    /\ pc' = "model"
    /\ UNCHANGED <<currentRecipe, finalRecipe, recipeMutated, clarificationQuestion,
                   signal, timer, events, step, outcome, returned, calls>>
    /\ UNCHANGED nonAgentVars

\* The tool calls of the round are done (a call whose input fails its inputSchema
\* is answered without execute, so a round may execute none). At the step cap
\* generateText resolves, otherwise the model is called again.
EndRound ==
    /\ pc = "tools"
    /\ IF step = StepCap
       THEN pc' = "settled" /\ outcome' = "resolved"
       ELSE pc' = "model" /\ UNCHANGED outcome
    /\ UNCHANGED <<currentRecipe, finalRecipe, recipeMutated, clarificationQuestion,
                   signal, timer, events, step, returned, calls>>
    /\ UNCHANGED nonAgentVars

\* The model answers without tool calls: generateText resolves.
ModelStops ==
    /\ pc = "model"
    /\ ~signal.aborted
    /\ pc' = "settled"
    /\ outcome' = "resolved"
    /\ UNCHANGED <<currentRecipe, finalRecipe, recipeMutated, clarificationQuestion,
                   signal, timer, events, step, returned, calls>>
    /\ UNCHANGED nonAgentVars

\* The model call rejects: an AbortError when the signal is aborted, or a failure
\* of the provider at any time.
ModelFails ==
    /\ pc = "model"
    /\ pc' = "settled"
    /\ outcome' = "rejected"
    /\ UNCHANGED <<currentRecipe, finalRecipe, recipeMutated, clarificationQuestion,
                   signal, timer, events, step, returned, calls>>
    /\ UNCHANGED nonAgentVars

\* agent.ts:64  the timer callback runs while the turn awaits the model call.
TimerFires ==
    /\ pc = "model"
    /\ timer = "armed"
    /\ timer' = "fired"
    /\ signal' = Abort(signal, "timeout")
    /\ UNCHANGED <<currentRecipe, finalRecipe, recipeMutated, clarificationQuestion,
                   events, pc, step, outcome, returned, calls>>
    /\ UNCHANGED nonAgentVars

\* agent.ts:161-176  catch, finally, the classifier and the return, in one task.
Settle ==
    /\ pc = "settled"
    /\ timer' = IF timer = "armed" THEN "cleared" ELSE timer
    /\ IF outcome = "rejected" /\ AfterTry(outcome) = "rethrow"
       THEN returned' = "threw" /\ UNCHANGED events
       ELSE returned' = "returned" /\ events' = Append(events, Classify(Locals))
    /\ pc' = "done"
    /\ UNCHANGED <<currentRecipe, finalRecipe, recipeMutated, clarificationQuestion,
                   signal, step, outcome, calls>>
    /\ UNCHANGED nonAgentVars

Next ==
    \/ ModelCallsTools
    \/ CallUpdateIngredients
    \/ CallUpdateSteps
    \/ CallUpdateMetadata
    \/ CallAskClarification
    \/ CallReviewRecipe
    \/ EndRound
    \/ ModelStops
    \/ ModelFails
    \/ TimerFires
    \/ Settle

Spec == Init /\ [][Next]_vars

\* The model call of a turn whose signal is aborted rejects (abortSignal,
\* agent.ts:84).
AbortRejects == signal.aborted /\ ModelFails

\* What the runtime guarantees of a turn: the timer callback runs once its
\* time is up while the turn waits (agent.ts:64), an aborted model call
\* rejects, a round of tool calls comes to its end and the code after the try
\* runs. That the model answers is not guaranteed.
FairSpec ==
    /\ Spec
    /\ WF_vars(TimerFires)
    /\ WF_vars(AbortRejects)
    /\ WF_vars(EndRound)
    /\ WF_vars(Settle)

(***************************************************************************)
(* Vocabulary of the properties                                            *)
(***************************************************************************)

MutatingTools == {"update_ingredients", "update_steps", "update_metadata", "review_recipe"}

Invoked(tools) == {i \in 1..Len(calls) : calls[i].tool \in tools}

TerminalEvents == {i \in 1..Len(events) : IsTerminal(events[i])}

EventsOfType(type) == {i \in 1..Len(events) : events[i].type = type}

LastEvent == events[Len(events)]

LastCall == calls[Len(calls)]

\* A tool was invoked by this step.
Invoking(tool) == Len(calls') = Len(calls) + 1 /\ calls'[Len(calls')].tool = tool

\* Key k is the same in the draft before and after the step: absent in both, or
\* present in both with one value.
SameKey(k) ==
    /\ k \in DOMAIN finalRecipe' <=> k \in DOMAIN finalRecipe
    /\ k \in DOMAIN finalRecipe => finalRecipe'[k] = finalRecipe[k]

\* The effect of one tool invocation on a draft, as section 4.1 of the design states it.
EffectOf(c, draft) ==
    CASE c.tool = "update_ingredients" ->
            [k \in DOMAIN draft |-> IF k = "ingredients" THEN ParseIngredients(c.input)
                                                         ELSE draft[k]]
      [] c.tool = "update_steps" ->
            [k \in DOMAIN draft |-> IF k = "steps" THEN c.input ELSE draft[k]]
      [] c.tool = "update_metadata" ->
            LET set == {k \in DOMAIN c.input \cap MetaKeys : c.input[k] # Undefined}
            IN  [k \in DOMAIN draft \cup set |-> IF k \in set THEN c.input[k] ELSE draft[k]]
      [] c.tool = "review_recipe" ->
            [k \in (DOMAIN c.input \cap AIRecipeKeys) \cup {"sourceUrl", "scrapedAt"} |->
                IF k \in {"sourceUrl", "scrapedAt"} THEN currentRecipe[k]
                ELSE IF k = "ingredients" THEN ParseIngredients(c.input[k])
                ELSE c.input[k]]
      [] OTHER -> draft

RECURSIVE EffectsApplied(_, _)
EffectsApplied(draft, cs) ==
    IF cs = <<>> THEN draft ELSE EffectsApplied(EffectOf(Head(cs), draft), Tail(cs))

(***************************************************************************)
(* C1                                                                      *)
(***************************************************************************)

\* C1: however the model call ends, agentEditRecipe passes exactly one terminal
\* event (clarification, result or error) to onEvent and returns without throwing:
\* no terminal event before the call has ended, exactly one once it has, and the
\* call never ends by throwing.
ExactlyOneTerminalEvent ==
    /\ returned # "threw"
    /\ pc = "done" => returned = "returned" /\ Cardinality(TerminalEvents) = 1
    /\ pc # "done" => returned = "pending" /\ TerminalEvents = {}

\* A turn ended by a failure of the model call that no abort caused, after a tool ran.
ModelFailureTurnEnded ==
    /\ pc = "done"
    /\ outcome = "rejected"
    /\ ~signal.aborted
    /\ Len(calls) > 0
    /\ Cardinality(TerminalEvents) = 1

(***************************************************************************)
(* C2                                                                      *)
(***************************************************************************)

\* C2: within a turn every progress event precedes the terminal event and no event
\* follows it: a terminal event is always the last event of the log, and is there
\* only when the turn is over.
TerminalEventIsLast ==
    \A i \in 1..Len(events) : IsTerminal(events[i]) => i = Len(events) /\ pc = "done"

\* A turn ended by a clarification abort in which tool calls of the same round were
\* still executed after ask_clarification.
ClarifiedWithLaterToolCalls ==
    /\ pc = "done"
    /\ signal.reason = "clarification"
    /\ \E i \in Invoked({"ask_clarification"}) : \E j \in Invoked(MutatingTools) : i < j
    /\ Len(events) >= 2

(***************************************************************************)
(* C3                                                                      *)
(***************************************************************************)

\* C3: the terminal event follows from the end state in this order: a clarification
\* was requested -> clarification with the question; else the turn timed out -> the
\* timed-out error; else no tool mutated the draft -> the could-not-process error;
\* else -> result carrying the draft.
TerminalEventFollowsPrecedence ==
    pc = "done" =>
        LastEvent =
            IF Invoked({"ask_clarification"}) # {}
            THEN LET last == CHOOSE i \in Invoked({"ask_clarification"}) :
                                 \A j \in Invoked({"ask_clarification"}) : j <= i
                 IN  Clarification(calls[last].input)
            ELSE IF signal.aborted /\ signal.reason = "timeout" THEN Error(TimedOutMessage)
            ELSE IF Invoked(MutatingTools) = {} THEN Error(UnprocessedMessage)
            ELSE Result(finalRecipe)

(***************************************************************************)
(* C4                                                                      *)
(***************************************************************************)

\* C4: every result event carries the sourceUrl and scrapedAt of the currentRecipe
\* passed in, whatever the tools were given.
ResultKeepsProvenance ==
    \A i \in EventsOfType("result") :
        /\ {"sourceUrl", "scrapedAt"} \subseteq DOMAIN events[i].recipe
        /\ events[i].recipe.sourceUrl = currentRecipe.sourceUrl
        /\ events[i].recipe.scrapedAt = currentRecipe.scrapedAt

\* A turn ended with a result after review_recipe was given a recipe that carries
\* a sourceUrl of its own.
ResultAfterForeignProvenance ==
    /\ pc = "done"
    /\ LastEvent.type = "result"
    /\ \E i \in Invoked({"review_recipe"}) : "sourceUrl" \in DOMAIN calls[i].input

(***************************************************************************)
(* C5                                                                      *)
(***************************************************************************)

\* C5: a turn whose only tool invocation is ask_clarification(question) emits no
\* progress event and ends with the clarification event carrying exactly that
\* question, for every question string.
OnlyClarificationYieldsQuestion ==
    (pc = "done" /\ Len(calls) = 1 /\ calls[1].tool = "ask_clarification")
        => events = <<Clarification(calls[1].input)>>

(***************************************************************************)
(* C6                                                                      *)
(***************************************************************************)

\* C6: a turn in which the model stops without any tool invoked, the timeout not
\* having fired, emits the could-not-process error and nothing else.
NoToolYieldsUnprocessedError ==
    (pc = "done" /\ calls = <<>> /\ outcome = "resolved" /\ timer # "fired")
        => events = <<Error(UnprocessedMessage)>>

\* The model stopped in its first answer.
StoppedWithoutTools ==
    /\ pc = "done"
    /\ calls = <<>>
    /\ outcome = "resolved"
    /\ step = 0
    /\ timer = "cleared"

(***************************************************************************)
(* C7                                                                      *)
(***************************************************************************)

StepCapReached == pc = "done" /\ step = StepCap /\ outcome = "resolved"

\* C7 as stated: a turn that reaches the step cap without review_recipe, in which a
\* mutating tool ran, ends with a result whose recipe is the input recipe with the
\* effects of the invoked tools applied in invocation order.
StepCapYieldsResult ==
    (StepCapReached /\ Invoked({"review_recipe"}) = {} /\ Invoked(MutatingTools) # {})
        => LastEvent = Result(EffectsApplied(currentRecipe, calls))

\* C7 as amended: the same, for the turns in which ask_clarification was not invoked.
StepCapWithoutClarificationYieldsResult ==
    (/\ StepCapReached
     /\ Invoked({"review_recipe"}) = {}
     /\ Invoked(MutatingTools) # {}
     /\ Invoked({"ask_clarification"}) = {})
        => LastEvent = Result(EffectsApplied(currentRecipe, calls))

\* A turn at the step cap with several mutating invocations and no finalize.
StepCapAfterSeveralEffects ==
    /\ StepCapReached
    /\ Invoked({"review_recipe", "ask_clarification"}) = {}
    /\ Cardinality(Invoked(MutatingTools)) >= 2
    /\ LastEvent.type = "result"
    /\ LastEvent.recipe # currentRecipe

(***************************************************************************)
(* C8                                                                      *)
(***************************************************************************)

\* C8: when the timeout fired in a turn in which mutating tools were applied and no
\* clarification was requested, the terminal event is the timed-out error and no
\* result event is emitted.
TimeoutDiscardsDraft ==
    (/\ pc = "done"
     /\ timer = "fired"
     /\ Invoked(MutatingTools) # {}
     /\ Invoked({"ask_clarification"}) = {})
        => LastEvent = Error(TimedOutMessage) /\ EventsOfType("result") = {}

\* The timeout fired after the draft was changed.
TimedOutAfterEffects ==
    /\ pc = "done"
    /\ timer = "fired"
    /\ Invoked({"ask_clarification"}) = {}
    /\ recipeMutated
    /\ finalRecipe # currentRecipe

(***************************************************************************)
(* C9                                                                      *)
(***************************************************************************)

\* C9: update_metadata sets exactly the keys among title, servings, prepTime,
\* cookTime, cuisine, category, tags that its input holds with a value other than
\* undefined, each to that value, and leaves every other key of the draft as it was.
MetadataIsMerged ==
    [][Invoking("update_metadata") =>
          LET fields == calls'[Len(calls')].input
          IN  \A k \in RecipeKeys \cup DOMAIN finalRecipe \cup DOMAIN finalRecipe' :
                  IF k \in MetaKeys /\ k \in DOMAIN fields /\ fields[k] # Undefined
                  THEN k \in DOMAIN finalRecipe' /\ finalRecipe'[k] = fields[k]
                  ELSE SameKey(k)]_vars

\* update_metadata was given a title and an undefined servings for a draft that has
\* servings.
TitleMergedServingsKept ==
    /\ Len(calls) = 1
    /\ LastCall.tool = "update_metadata"
    /\ "title" \in DOMAIN LastCall.input
    /\ "servings" \in DOMAIN LastCall.input
    /\ finalRecipe.title = "New"
    /\ "servings" \in DOMAIN currentRecipe
    /\ finalRecipe.servings = currentRecipe.servings

(***************************************************************************)
(* C10                                                                     *)
(***************************************************************************)

\* C10: update_ingredients makes the draft's ingredients exactly the supplied list
\* and update_steps makes the draft's steps exactly the supplied list; each leaves
\* every other key of the draft as it was.
ListsAreReplaced ==
    [][/\ Invoking("update_ingredients") =>
            /\ finalRecipe'.ingredients = ParseIngredients(calls'[Len(calls')].input)
            /\ \A k \in (RecipeKeys \cup DOMAIN finalRecipe') \ {"ingredients"} : SameKey(k)
       /\ Invoking("update_steps") =>
            /\ finalRecipe'.steps = calls'[Len(calls')].input
            /\ \A k \in (RecipeKeys \cup DOMAIN finalRecipe') \ {"steps"} : SameKey(k)]_vars

\* update_ingredients was given the empty list for a draft that had ingredients.
IngredientsEmptied ==
    /\ Len(calls) = 1
    /\ LastCall.tool = "update_ingredients"
    /\ LastCall.input = <<>>
    /\ currentRecipe.ingredients # <<>>
    /\ finalRecipe.ingredients = <<>>
    /\ finalRecipe.steps = currentRecipe.steps

(***************************************************************************)
(* C11                                                                     *)
(***************************************************************************)

\* C11: review_recipe replaces the whole draft: afterwards the draft has exactly
\* the recipe keys of the tool's input, with the input's values, plus sourceUrl and
\* scrapedAt of currentRecipe; an optional key the draft had and the input has not
\* is gone.
ReviewReplacesDraft ==
    [][Invoking("review_recipe") =>
          LET recipe == calls'[Len(calls')].input
          IN  /\ DOMAIN finalRecipe' =
                     (DOMAIN recipe \cap AIRecipeKeys) \cup {"sourceUrl", "scrapedAt"}
              /\ \A k \in DOMAIN recipe \cap (AIRecipeKeys \ {"ingredients"}) :
                     finalRecipe'[k] = recipe[k]
              /\ finalRecipe'.ingredients = ParseIngredients(recipe.ingredients)
              /\ finalRecipe'.sourceUrl = currentRecipe.sourceUrl
              /\ finalRecipe'.scrapedAt = currentRecipe.scrapedAt]_vars

\* review_recipe was given a recipe without servings and tags after update_metadata
\* had set them on the draft.
ReviewDroppedOptionalKeys ==
    /\ Len(calls) = 2
    /\ calls[1].tool = "update_metadata"
    /\ "tags" \in DOMAIN calls[1].input
    /\ calls[2].tool = "review_recipe"
    /\ "tags" \notin DOMAIN calls[2].input
    /\ "tags" \notin DOMAIN finalRecipe
    /\ "servings" \notin DOMAIN finalRecipe

(***************************************************************************)
(* C12                                                                     *)
(***************************************************************************)

LastOf(tools) == CHOOSE i \in Invoked(tools) : \A j \in Invoked(tools) : j <= i

\* C12: in a turn that ends with a result after review_recipe was invoked, no tool
\* invoked after it changed the draft: the result recipe is the input of (the last)
\* review_recipe plus the provenance of currentRecipe.
ResultIsReviewedRecipe ==
    (pc = "done" /\ LastEvent.type = "result" /\ Invoked({"review_recipe"}) # {})
        => LastEvent.recipe =
               EffectOf(calls[LastOf({"review_recipe"})], currentRecipe)

(***************************************************************************)
(* C13                                                                     *)
(***************************************************************************)

\* C13: ask_clarification leaves the draft as it is, and once it has been invoked
\* no later tool invocation of the turn changes the draft or emits a progress
\* event.
ClarificationSuppressesTools ==
    [][/\ Invoking("ask_clarification") => finalRecipe' = finalRecipe /\ events' = events
       /\ (Invoked({"ask_clarification"}) # {} /\ pc # "settled")
              => finalRecipe' = finalRecipe /\ events' = events]_vars

(***************************************************************************)
(* C14                                                                     *)
(***************************************************************************)

ProgressLabel(tool) ==
    CASE tool = "update_ingredients" -> "Updating ingredients..."
      [] tool = "update_steps" -> "Updating steps..."
      [] tool = "update_metadata" -> "Updating recipe details..."
      [] tool = "review_recipe" -> "Reviewing consistency..."

IsMutatingCall(c) == c.tool \in MutatingTools

IsProgress(e) == e.type = "progress"

\* C14: every invocation of update_ingredients, update_steps, update_metadata or
\* review_recipe emits one progress event in the step that applies its effect, so
\* the progress events of a turn are, in number and order, the mutating
\* invocations of the turn.
ProgressFollowsInvocations ==
    LET mutating == SelectSeq(calls, IsMutatingCall)
        progress == SelectSeq(events, IsProgress)
    IN  /\ Len(progress) = Len(mutating)
        /\ \A i \in 1..Len(mutating) : progress[i] = Progress(ProgressLabel(mutating[i].tool))
        /\ recipeMutated <=> mutating # <<>>

\* A turn with three mutating invocations, among them update_metadata given no
\* metadata field, and three progress events.
ThreeEffectsThreeProgressEvents ==
    /\ pc = "done"
    /\ Len(calls) = 3
    /\ \A i \in 1..3 : IsMutatingCall(calls[i])
    /\ \E i \in 1..3 : calls[i].tool = "update_metadata" /\ DOMAIN calls[i].input \cap MetaKeys = {}
    /\ calls[1].tool # calls[2].tool
    /\ Len(SelectSeq(events, IsProgress)) = 3

(***************************************************************************)
(* The changeset engine: computeChangeset (apps/server/src/index.ts:54-75) *)
(*                                                                         *)
(* computeChangeset compares ingredients by JSON.stringify, which writes   *)
(* the keys of an object in their insertion order. Here an object is       *)
(* therefore the sequence of its <<key, value>> entries, in that order.    *)
(***************************************************************************)

\* Bound of the model: the length of an ingredient list given to computeChangeset.
MaxIngredients == 3

HasKey(obj, key) == \E i \in 1..Len(obj) : obj[i][1] = key

\* obj[key]: undefined when the object has no such key.
Get(obj, key) ==
    IF HasKey(obj, key) THEN obj[CHOOSE i \in 1..Len(obj) : obj[i][1] = key][2] ELSE Undefined

\* String.prototype.toLowerCase on the names of the ingredient pool.
LowerCase(str) ==
    CASE str = "Egg" -> "egg"
      [] OTHER -> str

IsDefinedEntry(entry) == entry[2] # Undefined

\* JSON.stringify of a flat object: its entries in key order, those whose value is
\* undefined left out. Two objects give the same text iff these sequences are equal.
JsonStringify(obj) == SelectSeq(obj, IsDefinedEntry)

EggTwo == << <<"name", "Egg">>, <<"quantity", "2">> >>
EggThree == << <<"name", "egg">>, <<"quantity", "3">>, <<"unit", Undefined>> >>
EggTwoReordered == << <<"quantity", "2">>, <<"name", "Egg">> >>
FlourGrams == << <<"name", "flour">>, <<"unit", "g">>, <<"note", "sifted">> >>

IngredientPool == {EggTwo, EggThree, EggTwoReordered, FlourGrams}

IngredientLists ==
    UNION {[1..n -> IngredientPool] : n \in 0..MaxIngredients}

Removed(ingredient) == [type |-> "removed", ingredient |-> ingredient]
Added(ingredient) == [type |-> "added", ingredient |-> ingredient]
Modified(before, after) == [type |-> "modified", before |-> before, after |-> after]

(***************************************************************************)
(* A JavaScript Map is the sequence of its <<key, value>> entries in        *)
(* iteration order, each key once.                                         *)
(***************************************************************************)

MapHas(map, key) == \E i \in 1..Len(map) : map[i][1] = key

MapGet(map, key) == map[CHOOSE i \in 1..Len(map) : map[i][1] = key][2]

\* Variant: a key set again moves to the end of the iteration order.
MapSetMovesKeyToEnd(map, key, value) ==
    LET IsOther(entry) == entry[1] # key
    IN  Append(SelectSeq(map, IsOther), <<key, value>>)

\* Variant: a key set again keeps its first value.
MapSetKeepsFirstValue(map, key, value) ==
    IF MapHas(map, key) THEN map ELSE Append(map, <<key, value>>)

\* Map.prototype.set: a new key is added at the end, a key already there keeps its
\* place and takes the new value.
MapSet(map, key, value) ==
    IF MapHas(map, key)
    THEN [i \in 1..Len(map) |-> IF map[i][1] = key THEN <<key, value>> ELSE map[i]]
    ELSE Append(map, <<key, value>>)

RECURSIVE MapOfRawNamesFrom(_, _)
MapOfRawNamesFrom(map, list) ==
    IF list = <<>> THEN map
    ELSE MapOfRawNamesFrom(MapSet(map, Get(Head(list), "name"), Head(list)), Tail(list))

\* Variant: the names are not lower-cased.
MapOfRawNames(list) == MapOfRawNamesFrom(<<>>, list)

RECURSIVE MapFrom(_, _)
MapFrom(map, list) ==
    IF list = <<>> THEN map
    ELSE MapFrom(MapSet(map, LowerCase(Get(Head(list), "name")), Head(list)), Tail(list))

\* index.ts:56-57  new Map(list.map((ing) => [ing.name.toLowerCase(), ing]))
MapOf(list) == MapFrom(<<>>, list)

\* index.ts:59-66  the loop over originalMap, from its entry i on
RECURSIVE RemovedAndModified(_, _, _)
RemovedAndModified(originalMap, editedMap, i) ==
    IF i > Len(originalMap) THEN <<>>
    ELSE LET name == originalMap[i][1]
             orig == originalMap[i][2]
             rest == RemovedAndModified(originalMap, editedMap, i + 1)
         IN  IF ~MapHas(editedMap, name) THEN <<Removed(orig)>> \o rest
             ELSE IF JsonStringify(orig) # JsonStringify(MapGet(editedMap, name))
                  THEN <<Modified(orig, MapGet(editedMap, name))>> \o rest
                  ELSE rest

\* index.ts:68-72  the loop over editedMap, from its entry i on
RECURSIVE AddedOnes(_, _, _)
AddedOnes(originalMap, editedMap, i) ==
    IF i > Len(editedMap) THEN <<>>
    ELSE LET name == editedMap[i][1]
             ed == editedMap[i][2]
             rest == AddedOnes(originalMap, editedMap, i + 1)
         IN  IF ~MapHas(originalMap, name) THEN <<Added(ed)>> \o rest ELSE rest

RECURSIVE MapOfFirstValuesFrom(_, _)
MapOfFirstValuesFrom(map, list) ==
    IF list = <<>> THEN map
    ELSE MapOfFirstValuesFrom(
             MapSetKeepsFirstValue(map, LowerCase(Get(Head(list), "name")), Head(list)),
             Tail(list))

\* Variant: of the original entries with one name the first is kept, of the
\* edited ones the last.
ComputeChangesetFromFirstOriginal(orig, ed) ==
    LET originalMap == MapOfFirstValuesFrom(<<>>, orig)
        editedMap == MapOf(ed)
    IN  RemovedAndModified(originalMap, editedMap, 1) \o AddedOnes(originalMap, editedMap, 1)

\* index.ts:54-75
ComputeChangeset(orig, ed) ==
    LET originalMap == MapOf(orig)
        editedMap == MapOf(ed)
    IN  RemovedAndModified(originalMap, editedMap, 1) \o AddedOnes(originalMap, editedMap, 1)

(***************************************************************************)
(* computeChangeset called on any two lists                                *)
(***************************************************************************)

\* No turn of agentEditRecipe is under way.
AgentIdle ==
    /\ currentRecipe = MinimalRecipe
    /\ finalRecipe = MinimalRecipe
    /\ recipeMutated = FALSE
    /\ clarificationQuestion = <<>>
    /\ signal = [aborted |-> FALSE, reason |-> "none"]
    /\ timer = "cleared"
    /\ events = <<>>
    /\ pc = "idle"
    /\ step = 0
    /\ outcome = "pending"
    /\ returned = "pending"
    /\ calls = <<>>

ChangesetInit ==
    /\ AgentIdle
    /\ StoreEmpty
    /\ PairIdle
    /\ PageIdle
    /\ original \in IngredientLists
    /\ edited \in IngredientLists
    /\ diffs = <<>>
    /\ changesetPc = "input"

CallComputeChangeset ==
    /\ changesetPc = "input"
    /\ diffs' = ComputeChangeset(original, edited)
    /\ changesetPc' = "returned"
    /\ UNCHANGED <<nonChangesetVars, original, edited>>

ChangesetNext == CallComputeChangeset

ChangesetSpec == ChangesetInit /\ [][ChangesetNext]_vars

(***************************************************************************)
(* Vocabulary of the changeset properties                                  *)
(***************************************************************************)

\* The identity of an ingredient for diffing: its name, lower-cased.
NameKey(ingredient) == LowerCase(Get(ingredient, "name"))

NamesOf(list) == {NameKey(list[i]) : i \in 1..Len(list)}

FirstIndex(list, name) ==
    CHOOSE i \in 1..Len(list) :
        NameKey(list[i]) = name /\ \A j \in 1..(i - 1) : NameKey(list[j]) # name

LastWith(list, name) ==
    list[CHOOSE i \in 1..Len(list) :
             NameKey(list[i]) = name /\ \A j \in (i + 1)..Len(list) : NameKey(list[j]) # name]

DiffName(d) == IF d.type = "modified" THEN NameKey(d.before) ELSE NameKey(d.ingredient)

DiffsAbout(name) == {i \in 1..Len(diffs) : DiffName(diffs[i]) = name}

\* Structural equality over the four fields of an Ingredient.
SameFields(a, b) == \A k \in IngredientKeys : Get(a, k) = Get(b, k)

\* The one diff about the name is d.
OnlyDiffAbout(name, d) ==
    /\ Cardinality(DiffsAbout(name)) = 1
    /\ \A i \in DiffsAbout(name) : diffs[i] = d

(***************************************************************************)
(* C15                                                                     *)
(***************************************************************************)

\* C15: ingredients are matched by lower-cased name: a name of the original list
\* only gives one 'removed' diff, a name of the edited list only gives one 'added'
\* diff, and a name of both lists with a changed field gives exactly one diff, a
\* 'modified' one with before the original entry and after the edited entry.
MatchedByLowerCasedName ==
    changesetPc = "returned" =>
        \A name \in NamesOf(original) \cup NamesOf(edited) :
            IF name \notin NamesOf(edited)
            THEN OnlyDiffAbout(name, Removed(LastWith(original, name)))
            ELSE IF name \notin NamesOf(original)
            THEN OnlyDiffAbout(name, Added(LastWith(edited, name)))
            ELSE ~SameFields(LastWith(original, name), LastWith(edited, name))
                     => OnlyDiffAbout(name, Modified(LastWith(original, name),
                                                     LastWith(edited, name)))

\* computeChangeset([{name:"Egg", quantity:2}], [{name:"egg", quantity:3}])
EggModifiedAcrossCase ==
    /\ changesetPc = "returned"
    /\ original = <<EggTwo>>
    /\ edited = <<EggThree>>
    /\ diffs = <<Modified(EggTwo, EggThree)>>

(***************************************************************************)
(* C16                                                                     *)
(***************************************************************************)

\* C16: for a name of both lists there is a 'modified' diff if and only if the two
\* ingredients differ in one of the fields name, quantity, unit, preparation,
\* whatever the key order and the other properties of the objects.
ModifiedIffFieldsDiffer ==
    changesetPc = "returned" =>
        \A name \in NamesOf(original) \cap NamesOf(edited) :
            (\E i \in DiffsAbout(name) : diffs[i].type = "modified")
                <=> ~SameFields(LastWith(original, name), LastWith(edited, name))

(***************************************************************************)
(* C17                                                                     *)
(***************************************************************************)

\* C17: the output lists the removed and modified diffs first, in the order in
\* which their names first appear in the original list, and then the added diffs,
\* in the order in which their names first appear in the edited list.
DiffsInFirstAppearanceOrder ==
    changesetPc = "returned" =>
        \A i, j \in 1..Len(diffs) :
            i < j =>
                IF diffs[i].type = "added"
                THEN /\ diffs[j].type = "added"
                     /\ FirstIndex(edited, DiffName(diffs[i]))
                            < FirstIndex(edited, DiffName(diffs[j]))
                ELSE \/ diffs[j].type = "added"
                     \/ FirstIndex(original, DiffName(diffs[i]))
                            < FirstIndex(original, DiffName(diffs[j]))

\* The original list names egg, flour and egg again.
RepeatedNameKeepsItsPlace ==
    /\ changesetPc = "returned"
    /\ original = <<EggTwo, FlourGrams, EggThree>>
    /\ edited = <<>>
    /\ diffs = <<Removed(EggThree), Removed(FlourGrams)>>

(***************************************************************************)
(* C18                                                                     *)
(***************************************************************************)

\* C18: when a list holds several ingredients of one lower-cased name, the last of
\* them is the one compared and reported, and no lower-cased name has more than
\* one diff.
LastEntryOfANameWins ==
    changesetPc = "returned" =>
        /\ \A i \in 1..Len(diffs) :
               LET d == diffs[i]
               IN  CASE d.type = "removed" -> d.ingredient = LastWith(original, DiffName(d))
                     [] d.type = "added" -> d.ingredient = LastWith(edited, DiffName(d))
                     [] d.type = "modified" ->
                            /\ d.before = LastWith(original, DiffName(d))
                            /\ d.after = LastWith(edited, DiffName(d))
        /\ \A i, j \in 1..Len(diffs) : DiffName(diffs[i]) = DiffName(diffs[j]) => i = j
        /\ \A name \in NamesOf(original) \cap NamesOf(edited) :
               DiffsAbout(name) = {}
                   <=> JsonStringify(LastWith(original, name))
                           = JsonStringify(LastWith(edited, name))

\* The original list holds Egg twice, its last entry equal to the edited one.
LaterDuplicateCompared ==
    /\ changesetPc = "returned"
    /\ original = <<EggTwo, EggThree>>
    /\ edited = <<EggThree>>
    /\ diffs = <<>>


(***************************************************************************)
(* The recipe store: the tables of db.ts and the handlers of index.ts that *)
(* write them. A nullable column is a sequence of at most one value. A     *)
(* handler runs to its next await in one step; the handlers suspended at   *)
(* an await are kept in imports and commits, by request.                   *)
(***************************************************************************)

\* Bound of the model: the requests the server receives.
MaxRequests == 3

Null == <<>>
Some(value) == <<value>>

\* A recipe id no row has.
UnknownId == 0

Urls == {"https://a.example/pancakes", "https://b.example/toast"}

\* zod's object schema gives the keys it found in the order of its shape.
IngredientShape == <<"name", "quantity", "unit", "preparation">>

IngredientSchemaParse(obj) ==
    LET found == SelectSeq(IngredientShape, LAMBDA k : HasKey(obj, k))
    IN  [i \in 1..Len(found) |-> <<found[i], Get(obj, found[i])>>]

RequiredRecipeKeys == {"title", "ingredients", "steps", "sourceUrl", "scrapedAt"}

\* RecipeSchema.safeParse(raw)
RecipeSchemaSafeParse(raw) ==
    IF RequiredRecipeKeys \subseteq DOMAIN raw
    THEN [success |-> TRUE,
          data |-> [k \in DOMAIN raw \cap RecipeKeys |->
                       IF k = "ingredients"
                       THEN [i \in 1..Len(raw[k]) |-> IngredientSchemaParse(raw[k][i])]
                       ELSE raw[k]]]
    ELSE [success |-> FALSE]

\* JSON.stringify(recipe), and what JSON.parse gives back from it.
StringifyRecipe(recipe) ==
    [k \in DOMAIN recipe |->
        IF k = "ingredients"
        THEN [i \in 1..Len(recipe[k]) |-> JsonStringify(recipe[k][i])]
        ELSE recipe[k]]

StringifyDiff(d) ==
    IF d.type = "modified"
    THEN Modified(JsonStringify(d.before), JsonStringify(d.after))
    ELSE [d EXCEPT !.ingredient = JsonStringify(@)]

\* JSON.stringify(changeset)
StringifyChangeset(changeset) == [i \in 1..Len(changeset) |-> StringifyDiff(changeset[i])]

\* What parseRecipeFromMarkdown resolves with: the extracted object under the
\* AI schema, with the url and the time of the import.
ParsedFromMarkdown(url, scrapedAt) ==
    [title |-> "Pancakes", ingredients |-> <<EggTwo>>, steps |-> <<"mix", "fry">>,
     sourceUrl |-> url, scrapedAt |-> scrapedAt]

\* The ingredient lists of the recipes a client proposes for a commit.
ProposedIngredients ==
    { <<JsonStringify(EggThree)>>, <<JsonStringify(EggThree), FlourGrams>> }

VersionNames == {"Less Egg"}

\* The request bodies of POST /recipes/:id/versions. The edit page sends the
\* recipe it proposes, the prompt or "AI edit", and the recipe's original import;
\* the older edit page sends no originalRecipe. JSON.stringify leaves out a key
\* whose value is undefined.
CommitBodies(originalRecipe) ==
    LET proposed == {[originalRecipe EXCEPT !.ingredients = list] : list \in ProposedIngredients}
    IN  {[recipe |-> p, editPrompt |-> "AI edit", originalRecipe |-> originalRecipe] :
            p \in proposed}
        \cup {[recipe |-> p, editPrompt |-> "AI edit"] : p \in proposed}
        \cup {[recipe |-> [ingredients |-> <<>>], editPrompt |-> "AI edit"],
              [editPrompt |-> "AI edit"]}

\* JSON.parse(row.original_json) of a stored recipe.
OriginalOf(recipeId) == recipes[recipeId].original_json

Responded(request, response) == responses' = responses @@ (request :> response)

ErrorResponse(message, status) == [status |-> status, error |-> message]

\* index.ts:21-23  newId(): an id no row has yet.  index.ts:25-27  now(): the
\* time, which is read here off the same counter and so never goes back.
NewId == nextId
Now == nextId

Arrives ==
    /\ requests < MaxRequests
    /\ requests' = requests + 1

\* index.ts:79-106: the body is read, the id and the time are taken, and the
\* stream starts with the duplicate check; then the handler waits for the scraper.
ImportStart(url) ==
    /\ Arrives
    /\ IF url = Undefined
       THEN /\ Responded(requests', ErrorResponse("url is required", "400"))
            /\ UNCHANGED <<nextId, imports>>
       ELSE /\ nextId' = nextId + 1
            /\ IF \E r \in DOMAIN recipes : recipes[r].source_url = url
               THEN /\ Responded(requests', [status |-> "error",
                                             message |-> "This URL has already been imported."])
                    /\ UNCHANGED imports
               ELSE /\ imports' = imports @@
                          (requests' :> [recipeId |-> NewId, url |-> url, createdAt |-> Now])
                    /\ UNCHANGED responses
    /\ UNCHANGED <<tags, recipes, versions, commits, replaced, streams, files>>
    /\ UNCHANGED nonStoreVars

Without(f, key) == [k \in DOMAIN f \ {key} |-> f[k]]

\* index.ts:106-138: the scrape, the image and the parse succeeded; the recipe,
\* its first version and the default pointer are written in one transaction.
ImportDone(request, imagePath) ==
    /\ request \in DOMAIN imports
    /\ LET import == imports[request]
           recipe == ParsedFromMarkdown(import.url, import.createdAt)
           versionId == NewId
       IN  /\ nextId' = nextId + 1
           /\ recipes' = recipes @@ (import.recipeId :>
                  [source_url |-> import.url, scraped_at |-> import.createdAt,
                   original_json |-> StringifyRecipe(recipe),
                   default_version_id |-> Some(versionId),
                   image_path |-> imagePath, created_at |-> import.createdAt])
           /\ versions' = versions @@ (versionId :>
                  [recipe_id |-> import.recipeId, recipe_json |-> StringifyRecipe(recipe),
                   edit_prompt |-> Null, name |-> Null, changeset |-> Null,
                   created_at |-> import.createdAt])
           /\ Responded(request, [status |-> "done", recipeId |-> import.recipeId])
    /\ imports' = Without(imports, request)
    /\ UNCHANGED <<tags, requests, commits, replaced, streams, files>>
    /\ UNCHANGED nonStoreVars

\* index.ts:139-151: the scraper or the parser threw; nothing is written.
ImportFails(request) ==
    /\ request \in DOMAIN imports
    /\ Responded(request, [status |-> "error", message |-> "import failed"])
    /\ imports' = Without(imports, request)
    /\ UNCHANGED <<tags, recipes, versions, nextId, requests, commits, replaced, streams, files>>
    /\ UNCHANGED nonStoreVars

\* index.ts:256-260: the recipe is looked up, then the handler waits for the body.
CommitStart(recipeId, body) ==
    /\ Arrives
    /\ IF recipeId \notin DOMAIN recipes
       THEN /\ Responded(requests', ErrorResponse("Recipe not found", "404"))
            /\ UNCHANGED commits
       ELSE /\ commits' = commits @@
                  (requests' :> [stage |-> "body", recipeId |-> recipeId, body |-> body])
            /\ UNCHANGED responses
    /\ UNCHANGED <<tags, recipes, versions, nextId, imports, replaced, streams, files>>
    /\ UNCHANGED nonStoreVars

\* Variant: a failed naming call is not caught and ends the handler.
NamingFailureRethrown == [thrown |-> TRUE]

\* index.ts:280-287: the catch leaves versionName null and the handler goes on.
NamingFailure == [thrown |-> FALSE, versionName |-> Null]

InternalError == [status |-> "500"]

\* Variant: the pointer stays where it is when the version it is on was created
\* later than the one inserted.
DefaultAfterCommitByTime(commit) ==
    LET old == recipes[commit.recipeId].default_version_id
    IN  IF old # Null /\ old[1] \in DOMAIN versions
           /\ versions[old[1]].created_at > commit.createdAt
        THEN old
        ELSE Some(commit.versionId)

\* index.ts:302  UPDATE recipes SET default_version_id = versionId
DefaultAfterCommit(commit) == Some(commit.versionId)

\* Variant: the insert does not look for the recipe row (foreign keys off).
InsertVersionWithoutForeignKey(request, commit, versionName, naming) ==
    /\ commits' = Without(commits, request)
    /\ versions' = versions @@ (commit.versionId :>
           [recipe_id |-> commit.recipeId,
            recipe_json |-> StringifyRecipe(commit.data),
            edit_prompt |-> IF "editPrompt" \in DOMAIN commit.body
                            THEN Some(commit.body.editPrompt) ELSE Null,
            name |-> versionName,
            changeset |-> commit.changeset,
            created_at |-> commit.createdAt])
    /\ recipes' = IF commit.recipeId \in DOMAIN recipes
                  THEN [recipes EXCEPT
                           ![commit.recipeId].default_version_id = DefaultAfterCommit(commit)]
                  ELSE recipes
    /\ replaced' = replaced @@
           (commit.versionId :> IF commit.recipeId \in DOMAIN recipes
                                THEN recipes[commit.recipeId].default_version_id ELSE Null)
    /\ Responded(request, [status |-> "200", versionId |-> commit.versionId,
                           naming |-> naming])

\* index.ts:289-304: the version row is inserted, the default pointer is moved
\* to it and the versionId is answered. db.ts:14,31: the insert throws when
\* the recipe row is gone, which ends the handler before the update.
InsertVersion(request, commit, versionName, naming) ==
    /\ commits' = Without(commits, request)
    /\ IF commit.recipeId \in DOMAIN recipes
       THEN /\ versions' = versions @@ (commit.versionId :>
                   [recipe_id |-> commit.recipeId,
                    recipe_json |-> StringifyRecipe(commit.data),
                    edit_prompt |-> IF "editPrompt" \in DOMAIN commit.body
                                    THEN Some(commit.body.editPrompt) ELSE Null,
                    name |-> versionName,
                    changeset |-> commit.changeset,
                    created_at |-> commit.createdAt])
            /\ recipes' = [recipes EXCEPT
                   ![commit.recipeId].default_version_id = DefaultAfterCommit(commit)]
            /\ replaced' = replaced @@
                   (commit.versionId :> recipes[commit.recipeId].default_version_id)
            /\ Responded(request, [status |-> "200", versionId |-> commit.versionId,
                                   naming |-> naming])
       ELSE /\ Responded(request, InternalError @@ [naming |-> naming])
            /\ UNCHANGED <<recipes, versions, replaced>>

\* index.ts:260-287: the body is validated, the id and the time are taken and
\* the changeset is computed; with a prompt and an original recipe the handler
\* then waits for generateVersionName, otherwise it goes on to the insert.
CommitBody(request) ==
    /\ request \in DOMAIN commits
    /\ commits[request].stage = "body"
    /\ LET body == commits[request].body
           parsed == RecipeSchemaSafeParse(body.recipe)
       IN  IF "recipe" \notin DOMAIN body
           THEN /\ Responded(request, ErrorResponse("recipe is required", "400"))
                /\ commits' = Without(commits, request)
                /\ UNCHANGED <<recipes, versions, nextId, replaced>>
           ELSE IF ~parsed.success
           THEN /\ Responded(request, ErrorResponse("recipe is invalid", "400"))
                /\ commits' = Without(commits, request)
                /\ UNCHANGED <<recipes, versions, nextId, replaced>>
           ELSE LET changeset ==
                        IF "originalRecipe" \in DOMAIN body
                        THEN Some(StringifyChangeset(
                                 ComputeChangeset(body.originalRecipe.ingredients,
                                                  parsed.data.ingredients)))
                        ELSE Null
                    commit == [stage |-> "naming", recipeId |-> commits[request].recipeId,
                               body |-> body, data |-> parsed.data, versionId |-> NewId,
                               createdAt |-> Now, changeset |-> changeset]
                IN  /\ nextId' = nextId + 1
                    /\ IF /\ "editPrompt" \in DOMAIN body
                          /\ Truthy(Some(body.editPrompt))
                          /\ "originalRecipe" \in DOMAIN body
                       THEN /\ commits' = [commits EXCEPT ![request] = commit]
                            /\ UNCHANGED <<recipes, versions, responses, replaced>>
                       ELSE InsertVersion(request, commit, Null, "none")
    /\ UNCHANGED <<tags, requests, imports, streams, files>>
    /\ UNCHANGED nonStoreVars

\* index.ts:283: generateVersionName resolved.
CommitNamed(request, versionName) ==
    /\ request \in DOMAIN commits
    /\ commits[request].stage = "naming"
    /\ InsertVersion(request, commits[request], Some(versionName), "named")
    /\ UNCHANGED <<tags, nextId, requests, imports, streams, files>>
    /\ UNCHANGED nonStoreVars

\* index.ts:283-287: generateVersionName rejected.
CommitNamingFails(request) ==
    /\ request \in DOMAIN commits
    /\ commits[request].stage = "naming"
    /\ IF NamingFailure.thrown
       THEN /\ commits' = Without(commits, request)
            /\ Responded(request, InternalError @@ [naming |-> "failed"])
            /\ UNCHANGED <<recipes, versions, replaced>>
       ELSE InsertVersion(request, commits[request], NamingFailure.versionName, "failed")
    /\ UNCHANGED <<tags, nextId, requests, imports, streams, files>>
    /\ UNCHANGED nonStoreVars

\* Variant: the version is not looked up before the pointer is set.
SetDefaultUnchecked(recipeId, given) ==
    /\ Arrives
    /\ IF given = Null
       THEN /\ Responded(requests', ErrorResponse("versionId is required", "400"))
            /\ UNCHANGED recipes
       ELSE /\ recipes' = IF recipeId \in DOMAIN recipes
                          THEN [recipes EXCEPT ![recipeId].default_version_id = given]
                          ELSE recipes
            /\ Responded(requests', [status |-> "200", ok |-> TRUE])
    /\ UNCHANGED <<versions, tags, nextId, commits, imports, replaced, streams, files>>
    /\ UNCHANGED nonStoreVars

\* Variant: making a version the default clears the changeset stored with it.
SetDefaultClearsChangeset(recipeId, given) ==
    /\ Arrives
    /\ IF given = Null
       THEN /\ Responded(requests', ErrorResponse("versionId is required", "400"))
            /\ UNCHANGED <<recipes, versions>>
       ELSE IF ~(given[1] \in DOMAIN versions /\ versions[given[1]].recipe_id = recipeId)
       THEN /\ Responded(requests', ErrorResponse("Version not found", "404"))
            /\ UNCHANGED <<recipes, versions>>
       ELSE /\ recipes' = [recipes EXCEPT ![recipeId].default_version_id = given]
            /\ versions' = [versions EXCEPT ![given[1]].changeset = Null]
            /\ Responded(requests', [status |-> "200", ok |-> TRUE])
    /\ UNCHANGED <<tags, nextId, commits, imports, replaced, streams, files>>
    /\ UNCHANGED nonStoreVars

\* Variant: the version is looked up by its id alone, whatever recipe it is of.
SetDefaultOfAnyRecipe(recipeId, given) ==
    /\ Arrives
    /\ IF given = Null
       THEN /\ Responded(requests', ErrorResponse("versionId is required", "400"))
            /\ UNCHANGED recipes
       ELSE IF given[1] \notin DOMAIN versions
       THEN /\ Responded(requests', ErrorResponse("Version not found", "404"))
            /\ UNCHANGED recipes
       ELSE /\ recipes' = IF recipeId \in DOMAIN recipes
                          THEN [recipes EXCEPT ![recipeId].default_version_id = given]
                          ELSE recipes
            /\ Responded(requests', [status |-> "200", ok |-> TRUE])
    /\ UNCHANGED <<tags, versions, nextId, commits, imports, replaced, streams, files>>
    /\ UNCHANGED nonStoreVars

\* index.ts:307-320
SetDefault(recipeId, given) ==
    /\ Arrives
    /\ IF given = Null
       THEN /\ Responded(requests', ErrorResponse("versionId is required", "400"))
            /\ UNCHANGED recipes
       ELSE IF ~(given[1] \in DOMAIN versions /\ versions[given[1]].recipe_id = recipeId)
       THEN /\ Responded(requests', ErrorResponse("Version not found", "404"))
            /\ UNCHANGED recipes
       ELSE /\ recipes' = [recipes EXCEPT ![recipeId].default_version_id = given]
            /\ Responded(requests', [status |-> "200", ok |-> TRUE])
    /\ UNCHANGED <<tags, versions, nextId, commits, imports, replaced, streams, files>>
    /\ UNCHANGED nonStoreVars

\* index.ts:343-349, db.ts:31: the recipe row goes and its versions with it.
DeleteRecipe(recipeId) ==
    /\ Arrives
    /\ IF recipeId \notin DOMAIN recipes
       THEN /\ Responded(requests', ErrorResponse("Recipe not found", "404"))
            /\ UNCHANGED <<recipes, versions>>
       ELSE /\ recipes' = Without(recipes, recipeId)
            /\ versions' = [v \in {w \in DOMAIN versions : versions[w].recipe_id # recipeId}
                               |-> versions[v]]
            /\ Responded(requests', [status |-> "200", ok |-> TRUE])
    /\ UNCHANGED <<tags, nextId, commits, imports, replaced, streams, files>>
    /\ UNCHANGED nonStoreVars

\* ORDER BY created_at DESC: the ids of the rows, latest first.
LatestFirst(table, ids) ==
    CHOOSE order \in [1..Cardinality(ids) -> ids] :
        \A i, j \in 1..Cardinality(ids) :
            i < j => table[order[i]].created_at > table[order[j]].created_at

VersionsOf(recipeId) == {v \in DOMAIN versions : versions[v].recipe_id = recipeId}

\* index.ts:219-234: the detail of a recipe, its versions latest first.
DetailOf(recipeId) ==
    LET order == LatestFirst(versions, VersionsOf(recipeId))
    IN  [id |-> recipeId,
         defaultVersionId |-> recipes[recipeId].default_version_id,
         originalRecipe |-> OriginalOf(recipeId),
         versions |-> [i \in 1..Len(order) |->
                          [id |-> order[i],
                           recipe |-> versions[order[i]].recipe_json,
                           editPrompt |-> versions[order[i]].edit_prompt,
                           name |-> versions[order[i]].name,
                           changeset |-> versions[order[i]].changeset,
                           createdAt |-> versions[order[i]].created_at]]]

\* index.ts:208-237
GetRecipe(recipeId) ==
    /\ Arrives
    /\ IF recipeId \notin DOMAIN recipes
       THEN Responded(requests', ErrorResponse("Recipe not found", "404"))
       ELSE Responded(requests', [status |-> "200", detail |-> DetailOf(recipeId)])
    /\ UNCHANGED <<recipes, versions, tags, nextId, commits, imports, replaced, streams, files>>
    /\ UNCHANGED nonStoreVars

\* index.ts:192-203: one item of the list; the title is read from the default version.
ListItemOf(recipeId) ==
    LET default == recipes[recipeId].default_version_id
    IN  [id |-> recipeId,
         title |-> IF default # Null /\ default[1] \in DOMAIN versions
                   THEN versions[default[1]].recipe_json.title ELSE "Untitled",
         defaultVersionId |-> default,
         versionCount |-> Cardinality(VersionsOf(recipeId))]

\* index.ts:170-206
ListRecipes ==
    /\ Arrives
    /\ LET order == LatestFirst(recipes, DOMAIN recipes)
       IN  Responded(requests', [status |-> "200",
                                 items |-> [i \in 1..Len(order) |-> ListItemOf(order[i])]])
    /\ UNCHANGED <<recipes, versions, tags, nextId, commits, imports, replaced, streams, files>>
    /\ UNCHANGED nonStoreVars

\* index.ts:322-341: the default version is read and handed to the printer,
\* which prints it or throws.
HandlePrint(recipeId, printed) ==
    /\ Arrives
    /\ IF recipeId \notin DOMAIN recipes
       THEN Responded(requests', ErrorResponse("Recipe not found", "404"))
       ELSE LET default == recipes[recipeId].default_version_id
            IN  IF default = Null
                THEN Responded(requests', ErrorResponse("No default version set", "400"))
                ELSE IF default[1] \notin DOMAIN versions
                THEN Responded(requests', ErrorResponse("Version not found", "404"))
                ELSE IF ~RecipeSchemaSafeParse(versions[default[1]].recipe_json).success
                THEN Responded(requests', ErrorResponse("Stored recipe is invalid", "400"))
                ELSE IF printed
                THEN Responded(requests', [status |-> "200", success |-> TRUE])
                ELSE Responded(requests', ErrorResponse("Print failed", "500"))
    /\ UNCHANGED <<recipes, versions, tags, nextId, commits, imports, replaced, streams, files>>
    /\ UNCHANGED nonStoreVars

TagNames == {"vegan"}

\* index.ts:353-358
GetTags ==
    /\ Arrives
    /\ Responded(requests', [status |-> "200",
                             names |-> {tags[t].name : t \in DOMAIN tags}])
    /\ UNCHANGED <<recipes, versions, tags, nextId, commits, imports, replaced, streams, files>>
    /\ UNCHANGED nonStoreVars

\* index.ts:360-372: name is the body's name trimmed; db.ts:43 the insert throws
\* when a tag has the name already.
CreateTag(name) ==
    /\ Arrives
    /\ IF name = ""
       THEN /\ Responded(requests', ErrorResponse("name is required", "400"))
            /\ UNCHANGED <<tags, nextId>>
       ELSE /\ nextId' = nextId + 1
            /\ IF \E t \in DOMAIN tags : tags[t].name = name
               THEN /\ Responded(requests', ErrorResponse("Tag already exists", "409"))
                    /\ UNCHANGED tags
               ELSE /\ tags' = tags @@ (NewId :> [name |-> name, created_at |-> Now])
                    /\ Responded(requests', [status |-> "201", id |-> NewId, name |-> name])
    /\ UNCHANGED <<recipes, versions, commits, imports, replaced, streams, files>>
    /\ UNCHANGED nonStoreVars

\* index.ts:374-380
DeleteTag(tagId) ==
    /\ Arrives
    /\ IF tagId \notin DOMAIN tags
       THEN /\ Responded(requests', ErrorResponse("Tag not found", "404"))
            /\ UNCHANGED tags
       ELSE /\ tags' = Without(tags, tagId)
            /\ Responded(requests', [status |-> "200", ok |-> TRUE])
    /\ UNCHANGED <<recipes, versions, nextId, commits, imports, replaced, streams, files>>
    /\ UNCHANGED nonStoreVars

StoreInit ==
    /\ AgentIdle
    /\ ChangesetIdle
    /\ StoreEmpty
    /\ PairIdle
    /\ PageIdle

\* The versionId of a set-default body: none, the id of a stored version, or an
\* id no version has.
VersionIdsGiven == {Null, Some(UnknownId)} \cup {Some(v) : v \in DOMAIN versions}

StoreNext ==
    \/ \E url \in Urls \cup {Undefined} : ImportStart(url)
    \/ \E request \in DOMAIN imports, imagePath \in {Null, Some("image")} :
           ImportDone(request, imagePath)
    \/ \E request \in DOMAIN imports : ImportFails(request)
    \/ \E recipeId \in DOMAIN recipes : \E body \in CommitBodies(OriginalOf(recipeId)) :
           CommitStart(recipeId, body)
    \/ CommitStart(UnknownId, [editPrompt |-> "AI edit"])
    \/ \E request \in DOMAIN commits : CommitBody(request)
    \/ \E request \in DOMAIN commits, versionName \in VersionNames :
           CommitNamed(request, versionName)
    \/ \E request \in DOMAIN commits : CommitNamingFails(request)
    \/ \E recipeId \in DOMAIN recipes \cup {UnknownId}, given \in VersionIdsGiven :
           SetDefault(recipeId, given)
    \/ \E recipeId \in DOMAIN recipes \cup {UnknownId} : DeleteRecipe(recipeId)
    \/ \E recipeId \in DOMAIN recipes \cup {UnknownId} : GetRecipe(recipeId)
    \/ ListRecipes
    \/ \E recipeId \in DOMAIN recipes \cup {UnknownId}, printed \in BOOLEAN :
           HandlePrint(recipeId, printed)
    \/ GetTags
    \/ \E name \in TagNames \cup {""} : CreateTag(name)
    \/ \E tagId \in DOMAIN tags \cup {UnknownId} : DeleteTag(tagId)

StoreSpec == StoreInit /\ [][StoreNext]_vars

(***************************************************************************)
(* The contract of the commit handler                                      *)
(***************************************************************************)

\* JSON.parse(row.recipe_json).ingredients of a stored version.
IngredientsOf(versionId) == versions[versionId].recipe_json.ingredients

\* The versions a commit wrote whose replaced default version is still stored.
Committed == {v \in DOMAIN versions \cap DOMAIN replaced :
                 replaced[v] # Null /\ replaced[v][1] \in DOMAIN versions}

DiffFromReplaced(v) ==
    Some(StringifyChangeset(ComputeChangeset(IngredientsOf(replaced[v][1]), IngredientsOf(v))))

\* C19: the changeset stored with a committed version is the ingredient diff
\* between the default version the commit replaced and the version it saved.
\* The statement is taken in its weakest form, about the versions that have a
\* changeset at all.
ChangesetIsDiffFromReplacedVersion ==
    \A v \in Committed :
        versions[v].changeset # Null => versions[v].changeset = DiffFromReplaced(v)

\* The step in which the commit of this request comes back from a naming call
\* that failed.
NamingFailedStep(request) ==
    /\ request \in DOMAIN commits
    /\ commits[request].stage = "naming"
    /\ request \in DOMAIN responses'
    /\ responses'[request].naming = "failed"

\* The commit completed: the version is stored without a name, the recipe's
\* default pointer is on it and the response carries its id.
CommitCompletes(request) ==
    LET commit == commits[request]
        v == commit.versionId
    IN  /\ v \in DOMAIN versions'
        /\ v \notin DOMAIN versions
        /\ versions'[v].name = Null
        /\ versions'[v].recipe_id = commit.recipeId
        /\ commit.recipeId \in DOMAIN recipes'
        /\ recipes'[commit.recipeId].default_version_id = Some(v)
        /\ responses'[request].status = "200"
        /\ responses'[request].versionId = v

\* C20 as stated: when generateVersionName fails the commit still completes.
NamingFailureNeverBlocksCommit ==
    [][\A request \in DOMAIN commits :
          NamingFailedStep(request) => CommitCompletes(request)]_vars

\* C20: when generateVersionName fails and the recipe is still stored when the
\* naming call ends, the commit completes: the version is inserted with a null
\* name, the default pointer is moved to it and the response carries its id.
NamingFailureCommitsToStoredRecipe ==
    [][\A request \in DOMAIN commits :
          (NamingFailedStep(request) /\ commits[request].recipeId \in DOMAIN recipes)
              => CommitCompletes(request)]_vars

\* A commit whose naming call failed was answered with its versionId, and the
\* version is stored without a name as the recipe's default.
CommittedAfterNamingFailure ==
    \E request \in DOMAIN responses :
        /\ "naming" \in DOMAIN responses[request]
        /\ responses[request].naming = "failed"
        /\ responses[request].status = "200"
        /\ LET v == responses[request].versionId
           IN  /\ v \in DOMAIN versions
               /\ versions[v].name = Null
               /\ versions[v].edit_prompt = Some("AI edit")
               /\ recipes[versions[v].recipe_id].default_version_id = Some(v)

(***************************************************************************)
(* The store's invariants                                                  *)
(***************************************************************************)

\* C21: a recipe version is immutable. In every step of the store (import,
\* commit, set-default, print, tag and read requests) each stored version row
\* keeps its recipe, prompt, name, changeset and creation time, and a row goes
\* only in the step that deletes its recipe.
VersionsAreImmutable ==
    [][\A v \in DOMAIN versions :
          IF v \in DOMAIN versions'
          THEN versions'[v] = versions[v]
          ELSE /\ versions[v].recipe_id \in DOMAIN recipes
               /\ versions[v].recipe_id \notin DOMAIN recipes']_vars

\* A committed version with a changeset is still stored after a set-default
\* request moved the recipe's pointer back to the version it had replaced.
CommittedVersionKeptAfterSetDefault ==
    \E v \in Committed :
        /\ versions[v].changeset # Null
        /\ recipes[versions[v].recipe_id].default_version_id = replaced[v]
        /\ \E request \in DOMAIN responses : responses[request] = [status |-> "200", ok |-> TRUE]

(***************************************************************************)
(* Termination of a turn                                                   *)
(***************************************************************************)

\* C22: every turn terminates. Whatever the model does (it may go on invoking
\* tools, or never answer), the turn eventually passes its terminal event to
\* onEvent and returns, and the model is never asked for a round beyond the
\* fifth.
TurnTerminates ==
    /\ [](step <= StepCap /\ (pc = "model" => step < StepCap))
    /\ <>(pc = "done" /\ returned = "returned" /\ Cardinality(TerminalEvents) = 1)

\* The model never answered: the timer ended the turn.
TimedOutWithoutAnswer ==
    /\ pc = "done"
    /\ step = 0
    /\ timer = "fired"
    /\ outcome = "rejected"
    /\ events = <<Error(TimedOutMessage)>>

(***************************************************************************)
(* Two turns at once. Two callers call agentEditRecipe with the same       *)
(* currentRecipe object; the steps of the two calls interleave at their    *)
(* awaits. turns[t] holds what the call of caller t declares at            *)
(* agent.ts:63-68 and the position of its generateText. The tools of a     *)
(* call read and write the variables of the closure they were created in.  *)
(***************************************************************************)

\* Bound of the model: tool invocations executed in one of two concurrent turns.
MaxPairCalls == 2

Callers == {1, 2}

\* Variant: the variables of agent.ts:63-68 are declared once for the module, so
\* that the tools of every call see those of the first.
ClosureOfModule(t) == 1

\* agent.ts:63-68: each call declares its own variables; the tools created at
\* agent.ts:90-159 close over those.
ClosureOf(t) == t

\* agent.ts:63-68
FreshLocals ==
    [finalRecipe |-> Spread(<<>>, currentRecipe), recipeMutated |-> FALSE,
     clarificationQuestion |-> <<>>, signal |-> [aborted |-> FALSE, reason |-> "none"],
     events |-> <<>>]

NotCalled ==
    [locals |-> FreshLocals, pc |-> "idle", step |-> 0, timer |-> "cleared",
     outcome |-> "pending", calls |-> <<>>]

\* The tool inputs the model sends in the two turns.
PairInputs ==
    { [tool |-> "update_ingredients", input |-> <<Flour, Milk>>],
      [tool |-> "update_metadata", input |-> [servings |-> "2", cookTime |-> "5",
                                              tags |-> "quick", cuisine |-> Undefined]],
      [tool |-> "ask_clarification", input |-> "Which ingredient?"] }

\* agent.ts:91-158: the execute function of a tool on its parsed input.
Execute(c, L) ==
    CASE c.tool = "update_ingredients" -> UpdateIngredients(L, ParseIngredients(c.input))
      [] c.tool = "update_steps" -> UpdateSteps(L, c.input)
      [] c.tool = "update_metadata" -> UpdateMetadata(L, ParseMetadata(c.input))
      [] c.tool = "ask_clarification" -> AskClarification(L, c.input)
      [] c.tool = "review_recipe" -> ReviewRecipe(L, ParseAIRecipe(c.input))

\* What the code of caller t sees: the variables of its closure and its own onEvent.
LocalsSeenBy(t) == [turns[ClosureOf(t)].locals EXCEPT !.events = turns[t].locals.events]

\* The code of caller t leaves L: the variables go to its closure, the events
\* to its onEvent, and the position of its call becomes as given.
WrittenBy(t, L, position) ==
    [u \in Callers |->
        LET mine == IF u = t THEN position ELSE turns[u]
        IN  [mine EXCEPT !.locals =
                IF u = ClosureOf(t)
                THEN [L EXCEPT !.events = IF u = t THEN L.events ELSE mine.locals.events]
                ELSE IF u = t THEN [mine.locals EXCEPT !.events = L.events]
                ELSE mine.locals]]

PairUnchanged == UNCHANGED <<agentVars, changesetVars, storeVars, pageVars>>

\* agent.ts:62-81
PairStart(t) ==
    /\ turns[t].pc = "idle"
    /\ turns' = WrittenBy(t, FreshLocals, [turns[t] EXCEPT !.pc = "model", !.timer = "armed"])
    /\ PairUnchanged

PairModelCallsTools(t) ==
    /\ turns[t].pc = "model"
    /\ ~LocalsSeenBy(t).signal.aborted
    /\ turns[t].step < StepCap
    /\ Len(turns[t].calls) < MaxPairCalls
    /\ turns' = [turns EXCEPT ![t].pc = "tools", ![t].step = @ + 1]
    /\ PairUnchanged

PairCall(t, c) ==
    /\ turns[t].pc = "tools"
    /\ Len(turns[t].calls) < MaxPairCalls
    /\ turns' = WrittenBy(t, Execute(c, LocalsSeenBy(t)),
                          [turns[t] EXCEPT !.calls = Append(@, c)])
    /\ PairUnchanged

\* A round of the two-turn model executes at least one call; rounds that execute
\* none are those of Spec.
PairEndRound(t) ==
    /\ turns[t].pc = "tools"
    /\ Len(turns[t].calls) >= turns[t].step
    /\ turns' = IF turns[t].step = StepCap
                THEN [turns EXCEPT ![t].pc = "settled", ![t].outcome = "resolved"]
                ELSE [turns EXCEPT ![t].pc = "model"]
    /\ PairUnchanged

PairModelStops(t) ==
    /\ turns[t].pc = "model"
    /\ ~LocalsSeenBy(t).signal.aborted
    /\ turns' = [turns EXCEPT ![t].pc = "settled", ![t].outcome = "resolved"]
    /\ PairUnchanged

PairModelFails(t) ==
    /\ turns[t].pc = "model"
    /\ turns' = [turns EXCEPT ![t].pc = "settled", ![t].outcome = "rejected"]
    /\ PairUnchanged

PairTimerFires(t) ==
    /\ turns[t].pc = "model"
    /\ turns[t].timer = "armed"
    /\ turns' = WrittenBy(t, [LocalsSeenBy(t) EXCEPT !.signal = Abort(@, "timeout")],
                          [turns[t] EXCEPT !.timer = "fired"])
    /\ PairUnchanged

PairSettle(t) ==
    /\ turns[t].pc = "settled"
    /\ turns' = WrittenBy(t, OnEvent(LocalsSeenBy(t), Classify(LocalsSeenBy(t))),
                          [turns[t] EXCEPT !.pc = "done",
                                           !.timer = IF @ = "armed" THEN "cleared" ELSE @])
    /\ PairUnchanged

PairInit ==
    /\ ChangesetIdle
    /\ StoreEmpty
    /\ PageIdle
    /\ currentRecipe = FullRecipe
    /\ finalRecipe = currentRecipe
    /\ recipeMutated = FALSE
    /\ clarificationQuestion = <<>>
    /\ signal = [aborted |-> FALSE, reason |-> "none"]
    /\ timer = "cleared"
    /\ events = <<>>
    /\ pc = "idle"
    /\ step = 0
    /\ outcome = "pending"
    /\ returned = "pending"
    /\ calls = <<>>
    /\ turns = [t \in Callers |-> NotCalled]

PairNext ==
    \E t \in Callers :
        \/ PairStart(t)
        \/ PairModelCallsTools(t)
        \/ \E c \in PairInputs : PairCall(t, c)
        \/ PairEndRound(t)
        \/ PairModelStops(t)
        \/ PairModelFails(t)
        \/ PairTimerFires(t)
        \/ PairSettle(t)

PairSpec == PairInit /\ [][PairNext]_vars

(***************************************************************************)
(* C23                                                                     *)
(***************************************************************************)

\* What the variables and the events of a turn are when the turn runs alone, from
\* the tool invocations of that turn and its own timer only.
AloneLocals(t) ==
    LET cs == turns[t].calls
        asks == {i \in 1..Len(cs) : cs[i].tool = "ask_clarification"}
        mutating == SelectSeq(cs, IsMutatingCall)
        L == [finalRecipe |-> EffectsApplied(currentRecipe, cs),
              recipeMutated |-> mutating # <<>>,
              clarificationQuestion |->
                  IF asks = {} THEN <<>>
                  ELSE <<cs[CHOOSE i \in asks : \A j \in asks : j <= i].input>>,
              signal |->
                  IF asks # {} THEN [aborted |-> TRUE, reason |-> "clarification"]
                  ELSE IF turns[t].timer = "fired" THEN [aborted |-> TRUE, reason |-> "timeout"]
                  ELSE [aborted |-> FALSE, reason |-> "none"],
              events |-> [i \in 1..Len(mutating) |->
                             Progress(ProgressLabel(mutating[i].tool))]]
    IN  IF turns[t].pc = "done" THEN OnEvent(L, Classify(L)) ELSE L

\* C23: turns share no mutable state. With two calls of agentEditRecipe under way
\* on the same currentRecipe object, their steps interleaved in any order, the
\* draft, the flags, the signal and the events of each turn are at every moment
\* what its own invocations and its own timer make them, and the currentRecipe
\* the callers supplied is as they supplied it.
TurnsShareNothing ==
    /\ currentRecipe = FullRecipe
    /\ \A t \in Callers : turns[t].pc # "idle" => turns[t].locals = AloneLocals(t)

\* Both turns are over, each after two invocations: one ended with a result, the
\* other with a clarification.
TwoTurnsEndedApart ==
    /\ \A t \in Callers : turns[t].pc = "done" /\ Len(turns[t].calls) = MaxPairCalls
    /\ turns[1].locals.events[Len(turns[1].locals.events)].type = "result"
    /\ turns[2].locals.events[Len(turns[2].locals.events)].type = "clarification"
    /\ turns[2].locals.recipeMutated

(***************************************************************************)
(* C24                                                                     *)
(***************************************************************************)

\* C24: at every point of a turn, whatever step came last (a tool invocation, the
\* timer, an abort, the end of the model call), the draft is the input recipe with
\* the whole effect of every mutating tool invoked so far applied in invocation
\* order, and a result event carries that draft.
DraftIsEffectsSoFar ==
    /\ finalRecipe = EffectsApplied(currentRecipe, calls)
    /\ \A i \in EventsOfType("result") : events[i].recipe = EffectsApplied(currentRecipe, calls)

\* A round goes on after ask_clarification aborted the turn: an effect was applied
\* before the abort and another after it.
EffectsAroundAbort ==
    /\ pc = "tools"
    /\ signal = [aborted |-> TRUE, reason |-> "clarification"]
    /\ Len(calls) = 3
    /\ IsMutatingCall(calls[1])
    /\ calls[2].tool = "ask_clarification"
    /\ calls[3].tool = "update_metadata"

(***************************************************************************)
(* C25                                                                     *)
(***************************************************************************)

\* C25: the timeout takes precedence when it fires first. Once the timer has
\* aborted the turn before any clarification did, no tool is invoked and no
\* question is recorded any more, and the turn ends with the timed-out error as
\* its only terminal event: not with a clarification, not with a result.
TimeoutFirstEndsTimedOut ==
    /\ [](signal.reason = "timeout" =>
             /\ clarificationQuestion = <<>>
             /\ pc = "done" =>
                    /\ LastEvent = Error(TimedOutMessage)
                    /\ EventsOfType("clarification") = {}
                    /\ EventsOfType("result") = {})
    /\ [][signal.reason = "timeout" =>
             calls' = calls /\ clarificationQuestion' = clarificationQuestion]_vars

\* The timer fired while the model was asked for a third round, after two rounds
\* of effects.
TimedOutInThirdRound ==
    /\ pc = "done"
    /\ signal = [aborted |-> TRUE, reason |-> "timeout"]
    /\ step = 2
    /\ Len(calls) = 2
    /\ recipeMutated
    /\ outcome = "rejected"
    /\ LastEvent = Error(TimedOutMessage)

(***************************************************************************)
(* C26                                                                     *)
(***************************************************************************)

\* C26: once review_recipe has applied its effect the outcome of the turn is
\* fixed as a result: a turn in which review_recipe was invoked (and no
\* clarification asked) ends with a result event, also when the timer fires
\* afterwards while the model is asked for another round.
ReviewFixesResult ==
    (pc = "done" /\ Invoked({"review_recipe"}) # {} /\ Invoked({"ask_clarification"}) = {})
        => LastEvent.type = "result"

(***************************************************************************)
(* C27                                                                     *)
(***************************************************************************)

\* C27: a failure of the model call that no abort of the orchestrator caused is
\* never reported as a timeout. If a mutating tool ran before it the terminal
\* event is the result carrying the draft with the effects applied before the
\* failure, otherwise it is the could-not-process error.
ModelFailureIsNotTimeout ==
    (pc = "done" /\ outcome = "rejected" /\ ~signal.aborted) =>
        /\ LastEvent # Error(TimedOutMessage)
        /\ LastEvent = IF Invoked(MutatingTools) # {}
                       THEN Result(EffectsApplied(currentRecipe, calls))
                       ELSE Error(UnprocessedMessage)

\* The provider failed in the first model call, before any tool.
ModelFailedAtOnce ==
    /\ pc = "done"
    /\ outcome = "rejected"
    /\ ~signal.aborted
    /\ step = 0
    /\ timer = "cleared"
    /\ events = <<Error(UnprocessedMessage)>>

(***************************************************************************)
(* C28                                                                     *)
(***************************************************************************)

\* The question of the last ask_clarification invoked, if one was invoked.
QuestionRecorded ==
    IF Invoked({"ask_clarification"}) = {} THEN <<>>
    ELSE <<calls[LastOf({"ask_clarification"})].input>>

\* C28: a turn ends with a result event exactly when no non-empty question was
\* recorded, the abort reason is not timeout, and a mutating tool was executed,
\* whether or not the executions changed the content of the draft; no result
\* event is emitted otherwise.
ResultExactlyWhenMutated ==
    pc = "done" =>
        LET result == /\ QuestionRecorded \in {<<>>, <<"">>}
                      /\ signal.reason # "timeout"
                      /\ Invoked(MutatingTools) # {}
        IN  /\ LastEvent.type = "result" <=> result
            /\ EventsOfType("result") # {} <=> result

\* A result whose recipe is the input recipe: update_metadata was given no
\* metadata field.
ResultEqualToInput ==
    /\ pc = "done"
    /\ Len(calls) = 1
    /\ calls[1].tool = "update_metadata"
    /\ events[Len(events)] = Result(currentRecipe)

(***************************************************************************)
(* C29                                                                     *)
(***************************************************************************)

\* C29: in every reachable state of the store, with import, commit, set-default
\* and delete requests interleaved at their awaits, the default pointer of every
\* stored recipe is the id of a stored version of that recipe; it is never null,
\* a recipe being stored only by a completed import.
DefaultPointsToOwnVersion ==
    \A r \in DOMAIN recipes :
        LET default == recipes[r].default_version_id
        IN  /\ default # Null
            /\ default[1] \in DOMAIN versions
            /\ versions[default[1]].recipe_id = r

\* A commit moved the default pointer of a recipe while another commit for the
\* same recipe waits for its version name.
PointerMovedWhileCommitWaits ==
    \E r \in DOMAIN recipes, request \in DOMAIN commits :
        /\ recipes[r].default_version_id # Null
        /\ recipes[r].default_version_id[1] \in DOMAIN replaced
        /\ commits[request].stage = "naming"
        /\ commits[request].recipeId = r

(***************************************************************************)
(* C30                                                                     *)
(***************************************************************************)

\* The commit of this request is answered with success in this step.
CommitSucceeds(request) ==
    /\ request \in DOMAIN commits
    /\ request \in DOMAIN responses'
    /\ responses'[request].status = "200"

\* C30: a successful commit inserts exactly one new version, for its recipe, and
\* sets the default pointer of the recipe to it, whichever other commits for the
\* recipe are suspended or were answered before: of two overlapping commits both
\* versions are inserted and the pointer is on the one inserted last.
CommitInsertsOneVersionAndPointsToIt ==
    [][\A request \in DOMAIN commits :
          CommitSucceeds(request) =>
              LET v == responses'[request].versionId
                  r == commits[request].recipeId
              IN  /\ v \notin DOMAIN versions
                  /\ DOMAIN versions' = DOMAIN versions \cup {v}
                  /\ \A w \in DOMAIN versions : versions'[w] = versions[w]
                  /\ versions'[v].recipe_id = r
                  /\ recipes'[r].default_version_id = Some(v)]_vars

\* Two commits for one recipe overlapped; both versions are stored and the
\* pointer is on the one that was created first and inserted last.
PointerOnEarlierCreatedVersion ==
    \E v, w \in DOMAIN versions \cap DOMAIN replaced :
        /\ versions[v].recipe_id = versions[w].recipe_id
        /\ versions[v].created_at < versions[w].created_at
        /\ replaced[v] = Some(w)
        /\ recipes[versions[v].recipe_id].default_version_id = Some(v)
        /\ versions[v].name # Null
        /\ versions[w].name # Null

(***************************************************************************)
(* The set-default handler                                                 *)
(***************************************************************************)

\* The version a set-default body names is a stored version of the recipe.
VersionOfRecipe(recipeId, given) ==
    /\ given # Null
    /\ given[1] \in DOMAIN versions
    /\ versions[given[1]].recipe_id = recipeId

\* C31: handleSetDefault moves the default pointer of a recipe only when the
\* versionId it is given is a stored version of that recipe; with no versionId,
\* an unknown one or one of another recipe it answers 400 or 404 and the
\* default pointer of every recipe stays as it was.
SetDefaultChecksVersion ==
    [][\A recipeId \in DOMAIN recipes \cup {UnknownId}, given \in VersionIdsGiven :
          SetDefault(recipeId, given) =>
              IF VersionOfRecipe(recipeId, given)
              THEN /\ recipes' = [recipes EXCEPT ![recipeId].default_version_id = given]
                   /\ responses'[requests'].status = "200"
              ELSE /\ responses'[requests'].status \in {"400", "404"}
                   /\ DOMAIN recipes' = DOMAIN recipes
                   /\ \A r \in DOMAIN recipes :
                          recipes'[r].default_version_id = recipes[r].default_version_id]_vars

\* Two recipes are stored, each with its one version, and the third request was
\* answered that the version was not found.
SetDefaultRefusedBetweenTwoRecipes ==
    /\ requests = 3
    /\ 3 \in DOMAIN responses
    /\ responses[3] = ErrorResponse("Version not found", "404")
    /\ Cardinality(DOMAIN recipes) = 2
    /\ Cardinality(DOMAIN versions) = 2
    /\ \A r \in DOMAIN recipes : VersionOfRecipe(r, recipes[r].default_version_id)

(***************************************************************************)
(* The import handler                                                      *)
(***************************************************************************)

\* C32: no two stored recipes have the same source_url, also when two imports
\* of one URL run at the same time.
NoTwoRecipesShareUrl ==
    \A r1, r2 \in DOMAIN recipes :
        recipes[r1].source_url = recipes[r2].source_url => r1 = r2

(***************************************************************************)
(* The import stream: handleImport await by await, with the events it      *)
(* sends, the image file it saves and the reader of the response. The      *)
(* store above keeps the import to what it writes to the tables.           *)
(***************************************************************************)

\* Bound of the model: the import streams the server opens.
MaxImports == 2

\* index.ts:90-92  send(data): controller.enqueue puts the event on the stream,
\* and throws when the stream is not readable any more.
Enqueues(stream) == stream.state = "readable"

Send(stream, event) == [stream EXCEPT !.events = Append(@, event)]

ImportEvent(status) == [status |-> status]

ImportError(message) == [status |-> "error", message |-> message]

\* index.ts:153  controller.close()
Close(stream) == [stream EXCEPT !.state = "closed"]

\* index.ts:111  `${recipeId}.${ext}`
ImageFile(recipeId) == <<recipeId, "jpg">>

\* index.ts:141-147: the image saved before the failure is removed.
Unlinked(directory, imagePath) ==
    IF imagePath # Null THEN directory \ {imagePath[1]} ELSE directory

\* Variant: the catch closes the stream without sending the error.
CaughtClosesOnly(stream, message) == Close(stream)

\* index.ts:148-154: the catch sends the error and the finally closes the
\* stream; on a stream that is not readable both throw and leave it as it is.
Caught(stream, message) ==
    IF Enqueues(stream) THEN Close(Send(stream, ImportError(message))) ELSE stream

\* index.ts:79-106: the body is read, the id and the time are taken, and the
\* stream starts with the duplicate check; then the handler waits for the scraper.
StreamStart(url) ==
    /\ Arrives
    /\ Cardinality(DOMAIN streams) < MaxImports
    /\ IF url = Undefined
       THEN /\ Responded(requests', ErrorResponse("url is required", "400"))
            /\ UNCHANGED <<nextId, imports, streams>>
       ELSE /\ nextId' = nextId + 1
            /\ UNCHANGED responses
            /\ LET stream == [events |-> <<>>, state |-> "readable"]
               IN  IF \E r \in DOMAIN recipes : recipes[r].source_url = url
                   THEN /\ streams' = streams @@ (requests' :>
                               Close(Send(stream,
                                     ImportError("This URL has already been imported."))))
                        /\ UNCHANGED imports
                   ELSE /\ streams' = streams @@ (requests' :>
                               Send(stream, ImportEvent("scraping")))
                        /\ imports' = imports @@ (requests' :>
                               [stage |-> "scraping", recipeId |-> NewId, url |-> url,
                                createdAt |-> Now, imagePath |-> Null])
    /\ UNCHANGED <<tags, recipes, versions, commits, replaced, files>>
    /\ UNCHANGED nonStoreVars

\* index.ts:120-121: 'parsing' is sent and the handler waits for the parser;
\* when the send throws, the catch removes the image and ends the import.
ThenParse(request, import, directory) ==
    IF Enqueues(streams[request])
    THEN /\ streams' = [streams EXCEPT ![request] = Send(@, ImportEvent("parsing"))]
         /\ imports' = [imports EXCEPT ![request] = [import EXCEPT !.stage = "parsing"]]
         /\ files' = directory
    ELSE /\ streams' = [streams EXCEPT ![request] = Caught(@, "Invalid state")]
         /\ imports' = Without(imports, request)
         /\ files' = Unlinked(directory, import.imagePath)

\* index.ts:106-109: scrapeUrl resolved, with an og:image to download or without.
StreamScraped(request, ogImageUrl) ==
    /\ request \in DOMAIN imports
    /\ imports[request].stage = "scraping"
    /\ IF ogImageUrl
       THEN /\ imports' = [imports EXCEPT ![request].stage = "image"]
            /\ UNCHANGED <<streams, files>>
       ELSE ThenParse(request, imports[request], files)
    /\ UNCHANGED <<tags, recipes, versions, nextId, requests, commits, responses, replaced>>
    /\ UNCHANGED nonStoreVars

\* index.ts:110-118: downloadImage wrote the file, or it threw, which is ignored.
StreamImage(request, downloaded) ==
    /\ request \in DOMAIN imports
    /\ imports[request].stage = "image"
    /\ LET filename == ImageFile(imports[request].recipeId)
       IN  IF downloaded
           THEN ThenParse(request, [imports[request] EXCEPT !.imagePath = Some(filename)],
                          files \cup {filename})
           ELSE ThenParse(request, imports[request], files)
    /\ UNCHANGED <<tags, recipes, versions, nextId, requests, commits, responses, replaced>>
    /\ UNCHANGED nonStoreVars

\* index.ts:121-138: the parser resolved; the recipe, its first version and the
\* default pointer are written in one transaction and 'done' is sent. When the
\* send throws, the catch runs after the transaction.
StreamParsed(request) ==
    /\ request \in DOMAIN imports
    /\ imports[request].stage = "parsing"
    /\ LET import == imports[request]
           recipe == ParsedFromMarkdown(import.url, import.createdAt)
           versionId == NewId
       IN  /\ nextId' = nextId + 1
           /\ recipes' = recipes @@ (import.recipeId :>
                  [source_url |-> import.url, scraped_at |-> import.createdAt,
                   original_json |-> StringifyRecipe(recipe),
                   default_version_id |-> Some(versionId),
                   image_path |-> import.imagePath, created_at |-> import.createdAt])
           /\ versions' = versions @@ (versionId :>
                  [recipe_id |-> import.recipeId, recipe_json |-> StringifyRecipe(recipe),
                   edit_prompt |-> Null, name |-> Null, changeset |-> Null,
                   created_at |-> import.createdAt])
           /\ IF Enqueues(streams[request])
              THEN /\ streams' = [streams EXCEPT ![request] =
                          Close(Send(@, [status |-> "done", recipeId |-> import.recipeId]))]
                   /\ UNCHANGED files
              ELSE /\ streams' = [streams EXCEPT ![request] = Caught(@, "Invalid state")]
                   /\ files' = Unlinked(files, import.imagePath)
    /\ imports' = Without(imports, request)
    /\ UNCHANGED <<tags, requests, commits, responses, replaced>>
    /\ UNCHANGED nonStoreVars

\* index.ts:139-154: the scraper or the parser threw; nothing is written, the
\* image is removed, the error is sent and the stream is closed.
StreamFails(request) ==
    /\ request \in DOMAIN imports
    /\ imports[request].stage \in {"scraping", "parsing"}
    /\ streams' = [streams EXCEPT ![request] = Caught(@, "import failed")]
    /\ files' = Unlinked(files, imports[request].imagePath)
    /\ imports' = Without(imports, request)
    /\ UNCHANGED <<tags, recipes, versions, nextId, requests, commits, responses, replaced>>
    /\ UNCHANGED nonStoreVars

\* The client of an import under way goes away and the response stream is
\* cancelled: it is not readable from then on.
ReaderCancels(request) ==
    /\ request \in DOMAIN imports
    /\ Enqueues(streams[request])
    /\ streams' = [streams EXCEPT ![request].state = "cancelled"]
    /\ UNCHANGED <<tags, recipes, versions, nextId, requests, commits, imports, responses,
                   replaced, files>>
    /\ UNCHANGED nonStoreVars

ImportNext ==
    \/ \E url \in Urls \cup {Undefined} : StreamStart(url)
    \/ \E request \in DOMAIN imports, ogImageUrl \in BOOLEAN :
           StreamScraped(request, ogImageUrl)
    \/ \E request \in DOMAIN imports, downloaded \in BOOLEAN :
           StreamImage(request, downloaded)
    \/ \E request \in DOMAIN imports : StreamParsed(request)
    \/ \E request \in DOMAIN imports : StreamFails(request)
    \/ \E request \in DOMAIN imports : ReaderCancels(request)
    \/ \E recipeId \in DOMAIN recipes \cup {UnknownId} : DeleteRecipe(recipeId)

ImportSpec == StoreInit /\ [][ImportNext]_vars

(***************************************************************************)
(* The contract of the import stream                                       *)
(***************************************************************************)

\* The statuses of the events on a stream, in order.
StatusesOf(stream) == [i \in 1..Len(stream.events) |-> stream.events[i].status]

LastStatus(stream) ==
    IF stream.events = <<>> THEN "none" ELSE stream.events[Len(stream.events)].status

\* The import of the request ends in this step.
ImportEnds(request) == request \in DOMAIN imports /\ request \notin DOMAIN imports'

\* After the step the recipe of the import is stored with its first version,
\* which has no prompt, name or changeset and is the default.
StoredWhole(import) ==
    /\ import.recipeId \in DOMAIN recipes'
    /\ \E v \in DOMAIN versions' :
          /\ versions'[v].recipe_id = import.recipeId
          /\ versions'[v].edit_prompt = Null
          /\ versions'[v].name = Null
          /\ versions'[v].changeset = Null
          /\ recipes'[import.recipeId].default_version_id = Some(v)

\* After the step neither the recipe nor a version of it is stored.
StoredNothing(import) ==
    /\ import.recipeId \notin DOMAIN recipes'
    /\ \A v \in DOMAIN versions' : versions'[v].recipe_id # import.recipeId

\* C33: an import is all or nothing: when it ends, either the recipe, its
\* first version and the default pointer are stored and 'done' was sent, or
\* none of them is stored and the image saved for it is gone, with 'error' sent
\* (asked here only of a stream that could still take an event).
ImportIsAllOrNothing ==
    [][\A request \in DOMAIN imports :
          ImportEnds(request) =>
              \/ /\ StoredWhole(imports[request])
                 /\ LastStatus(streams'[request]) = "done"
              \/ /\ StoredNothing(imports[request])
                 /\ ImageFile(imports[request].recipeId) \notin files'
                 /\ Enqueues(streams[request]) =>
                        LastStatus(streams'[request]) = "error"]_vars

\* What a stream holds once its terminal event is on it.
EndedOrders ==
    { <<"error">>, <<"scraping", "error">>, <<"scraping", "parsing", "error">>,
      <<"scraping", "parsing", "done">> }

\* What a stream holds before its terminal event.
OpenOrders == { <<"scraping">>, <<"scraping", "parsing">> }

\* The events of a stream are in order, the terminal event is the last, and
\* the handler has closed the stream exactly when the terminal event is on it.
InOrder(stream) ==
    /\ StatusesOf(stream) \in EndedOrders \cup OpenOrders
    /\ stream.state = "closed" <=> StatusesOf(stream) \in EndedOrders

\* C34 as stated: every import stream carries scraping, parsing and then exactly
\* one terminal event, the last; the stream of an import that is over has its
\* terminal event.
EveryStreamEndsWithOneTerminalEvent ==
    \A request \in DOMAIN streams :
        /\ InOrder(streams[request])
        /\ request \notin DOMAIN imports => StatusesOf(streams[request]) \in EndedOrders

\* C34, amended: the events of every import stream are in the order scraping,
\* parsing, terminal; a stream its reader has not cancelled gets exactly one
\* terminal event, the last, and is closed with it; a stream the reader has
\* cancelled keeps the events it had and gets no terminal event.
UncancelledStreamEndsWithOneTerminalEvent ==
    \A request \in DOMAIN streams :
        /\ InOrder(streams[request])
        /\ request \notin DOMAIN imports /\ streams[request].state # "cancelled"
               => StatusesOf(streams[request]) \in EndedOrders
        /\ streams[request].state = "cancelled"
               => StatusesOf(streams[request]) \in OpenOrders

\* One import is over with 'done' after both notices, another is over on a
\* stream that was cancelled while the scraper ran.
DoneStreamBesideCancelledStream ==
    /\ imports = <<>>
    /\ \E r1, r2 \in DOMAIN streams :
          /\ StatusesOf(streams[r1]) = <<"scraping", "parsing", "done">>
          /\ streams[r1].state = "closed"
          /\ StatusesOf(streams[r2]) = <<"scraping">>
          /\ streams[r2].state = "cancelled"

(***************************************************************************)
(* Versions and the recipe they are of                                     *)
(***************************************************************************)

\* C35: no version is orphaned: every recipe_versions row is of a stored
\* recipe, so a deleted recipe has no version left, and a commit whose recipe
\* was deleted while it waited for generateVersionName leaves no row either.
NoVersionIsOrphaned ==
    \A v \in DOMAIN versions : versions[v].recipe_id \in DOMAIN recipes

\* A commit went on after the naming call and was answered 500, and neither a
\* recipe nor a version is stored: its recipe was deleted while it waited.
CommitEndedAfterItsRecipeWasDeleted ==
    /\ recipes = <<>>
    /\ versions = <<>>
    /\ commits = <<>>
    /\ \E request \in DOMAIN responses :
          /\ "naming" \in DOMAIN responses[request]
          /\ responses[request].naming \in {"named", "failed"}
          /\ responses[request].status = "500"
    /\ \E request \in DOMAIN responses : responses[request] = [status |-> "200", ok |-> TRUE]

(***************************************************************************)
(* computeChangeset on a list and itself, and on two lists both ways       *)
(***************************************************************************)

\* The diff read the other way: removed for added, before for after.
Mirror(d) ==
    IF d.type = "modified" THEN Modified(d.after, d.before)
    ELSE IF d.type = "removed" THEN Added(d.ingredient)
    ELSE Removed(d.ingredient)

DiffSet(changeset) == {changeset[i] : i \in 1..Len(changeset)}

\* C38: computeChangeset(L, L) is empty for every list L, lists with repeated
\* names included, and computeChangeset(A, B) and computeChangeset(B, A) mirror
\* each other: as many diffs, each removed of one an added of the same
\* ingredient in the other, each modified with before and after swapped.
ChangesetMirrorsItself ==
    changesetPc = "returned" =>
        /\ ComputeChangeset(original, original) = <<>>
        /\ original = edited => diffs = <<>>
        /\ LET back == ComputeChangeset(edited, original)
           IN  /\ Len(back) = Len(diffs)
               /\ DiffSet(back) = {Mirror(d) : d \in DiffSet(diffs)}

\* The original list has the name egg twice; the call returned a modified and
\* an added diff.
MirroredWithRepeatedName ==
    /\ changesetPc = "returned"
    /\ original = <<EggTwo, EggThree>>
    /\ edited = <<FlourGrams, EggTwo>>
    /\ diffs = <<Modified(EggThree, EggTwo), Added(FlourGrams)>>
    /\ ComputeChangeset(edited, original) = <<Removed(FlourGrams), Modified(EggTwo, EggThree)>>

(***************************************************************************)
(* The edit page: its state, the prompts typed and submitted, and the      *)
(* edit-preview requests it makes, each answered by the server with a      *)
(* status, events and the end of the stream. A text is the sequence of its *)
(* characters.                                                             *)
(***************************************************************************)

\* Bounds of the model: the turns the page starts, and the progress hints the
\* page shows at once.
MaxTurns == 2
MaxHints == 1

\* String.prototype.trim
RECURSIVE Trim(_)
Trim(text) ==
    IF text # <<>> /\ Head(text) = " " THEN Trim(Tail(text))
    ELSE IF text # <<>> /\ text[Len(text)] = " " THEN Trim(SubSeq(text, 1, Len(text) - 1))
    ELSE text

\* What the user types into the textarea.
PromptInputs == { <<>>, <<" ">>, <<" ", "a">>, <<"b", " ">> }

Message(role, content) == [role |-> role, content |-> content]

\* agent.ts:86-89  the messages given to the model: the history, then the prompt.
ModelMessages(history, prompt) ==
    [i \in 1..Len(history) |-> Message(history[i].role, history[i].content)]
        \o <<Message("user", prompt)>>

\* api.ts:9-13  the events a response stream carries.
PageEvents ==
    { [type |-> "progress", label |-> "Updating ingredients"],
      [type |-> "clarification", question |-> <<"q">>],
      [type |-> "result", recipe |-> "edited"],
      [type |-> "error", message |-> TimedOutMessage] }

\* Variant: a clarification starts the thread over with the question.
HandleEventRestartsThread(state, event) ==
    IF event.type = "progress"
    THEN [state EXCEPT !.progressHints = Append(@, event.label)]
    ELSE IF event.type = "clarification"
    THEN [state EXCEPT !.messages = <<Message("assistant", event.question)>>,
                       !.awaitingClarification = TRUE,
                       !.progressHints = <<>>,
                       !.generating = FALSE]
    ELSE IF event.type = "result"
    THEN [state EXCEPT !.proposed = <<event.recipe>>,
                       !.activeTab = "edited",
                       !.progressHints = <<>>,
                       !.generating = FALSE]
    ELSE [state EXCEPT !.error = event.message,
                       !.progressHints = <<>>,
                       !.generating = FALSE]

\* RecipeListPage.tsx:180-198  handleEvent
HandleEvent(state, event) ==
    IF event.type = "progress"
    THEN [state EXCEPT !.progressHints = Append(@, event.label)]
    ELSE IF event.type = "clarification"
    THEN [state EXCEPT !.messages = Append(@, Message("assistant", event.question)),
                       !.awaitingClarification = TRUE,
                       !.progressHints = <<>>,
                       !.generating = FALSE]
    ELSE IF event.type = "result"
    THEN [state EXCEPT !.proposed = <<event.recipe>>,
                       !.activeTab = "edited",
                       !.progressHints = <<>>,
                       !.generating = FALSE]
    ELSE [state EXCEPT !.error = event.message,
                       !.progressHints = <<>>,
                       !.generating = FALSE]

\* RecipeListPage.tsx:342,352  disabled={generating}
Disabled == page.generating

nonPageVars == <<agentVars, changesetVars, storeVars, pairVars>>

\* RecipeListPage.tsx:341  onChange: setPrompt
SetPrompt(text) ==
    /\ ~Disabled
    /\ page' = [page EXCEPT !.prompt = text]
    /\ UNCHANGED <<previews, nonPageVars>>

\* RecipeListPage.tsx:200-218  handleGenerate, called by the form and by Enter in
\* the textarea; api.ts:76-83 the request is made.
HandleGenerate ==
    /\ ~Disabled
    /\ LET trimmedPrompt == Trim(page.prompt)
           diffBase == IF page.proposed # <<>> THEN page.proposed[1] ELSE "current"
       IN  IF trimmedPrompt = <<>>
           THEN UNCHANGED <<page, previews>>
           ELSE /\ Len(previews) < MaxTurns
                /\ page' = [page EXCEPT
                       !.messages = Append(@, Message("user", trimmedPrompt)),
                       !.prompt = <<>>,
                       !.generating = TRUE,
                       !.error = "",
                       !.progressHints = <<>>,
                       !.awaitingClarification = FALSE,
                       !.usedPrompt = IF @ = <<>> THEN trimmedPrompt ELSE @]
                /\ previews' = Append(previews,
                       [stage |-> "pending", terminal |-> FALSE,
                        body |-> [prompt |-> trimmedPrompt, currentRecipe |-> diffBase,
                                  history |-> page.messages]])
    /\ UNCHANGED nonPageVars

\* api.ts:85-89: the response is not OK; its error is given to the page.
RespondsNotOk(i) ==
    /\ previews[i].stage = "pending"
    /\ page' = HandleEvent(page, [type |-> "error", message |-> "Edit preview failed"])
    /\ previews' = [previews EXCEPT ![i].stage = "ended"]
    /\ UNCHANGED nonPageVars

\* api.ts:91-97: the response is OK and its body is read.
RespondsOk(i) ==
    /\ previews[i].stage = "pending"
    /\ previews' = [previews EXCEPT ![i].stage = "streaming"]
    /\ UNCHANGED <<page, nonPageVars>>

\* api.ts:118-122: fetch or a read of the body rejects.
RequestFails(i) ==
    /\ previews[i].stage \in {"pending", "streaming"}
    /\ page' = HandleEvent(page, [type |-> "error", message |-> "Failed to fetch"])
    /\ previews' = [previews EXCEPT ![i].stage = "ended"]
    /\ UNCHANGED nonPageVars

\* api.ts:98-116: an event arrives on the stream. The server sends nothing
\* after a terminal event.
StreamEvent(i, event) ==
    /\ previews[i].stage = "streaming"
    /\ ~previews[i].terminal
    /\ event.type = "progress" => Len(page.progressHints) < MaxHints
    /\ page' = HandleEvent(page, event)
    /\ previews' = [previews EXCEPT ![i].terminal = event.type # "progress"]
    /\ UNCHANGED nonPageVars

\* api.ts:98-99: the stream ends, and the loop with it.
StreamEnds(i) ==
    /\ previews[i].stage = "streaming"
    /\ previews' = [previews EXCEPT ![i].stage = "ended"]
    /\ UNCHANGED <<page, nonPageVars>>

PageInit ==
    /\ AgentIdle
    /\ ChangesetIdle
    /\ StoreEmpty
    /\ PairIdle
    /\ PageIdle

PageNext ==
    \/ \E text \in PromptInputs : SetPrompt(text)
    \/ HandleGenerate
    \/ \E i \in 1..Len(previews) : RespondsNotOk(i)
    \/ \E i \in 1..Len(previews) : RespondsOk(i)
    \/ \E i \in 1..Len(previews) : RequestFails(i)
    \/ \E i \in 1..Len(previews), event \in PageEvents : StreamEvent(i, event)
    \/ \E i \in 1..Len(previews) : StreamEnds(i)

PageSpec == PageInit /\ [][PageNext]_vars

\* Every request made is answered, and every response ends.
RequestGoesOn ==
    \E i \in 1..Len(previews) :
        \/ RespondsNotOk(i)
        \/ RespondsOk(i)
        \/ RequestFails(i)
        \/ \E event \in PageEvents : StreamEvent(i, event)
        \/ StreamEnds(i)

PageFairSpec == PageSpec /\ WF_vars(RequestGoesOn)

(***************************************************************************)
(* The conversation of the edit page                                       *)
(***************************************************************************)

\* The page starts a turn in this step.
TurnStarts == Len(previews') = Len(previews) + 1

\* C36: the conversation history of the edit page is append-only and ordered:
\* a submitted prompt appends one user message, a clarification event one
\* assistant message with its question, result, error and progress events
\* nothing; the history sent with a turn is the messages before the prompt, and
\* the model is given that history with the prompt last as a user message.
HistoryIsAppendOnly ==
    [][/\ \/ page'.messages = page.messages
          \/ /\ Len(page'.messages) = Len(page.messages) + 1
             /\ SubSeq(page'.messages, 1, Len(page.messages)) = page.messages
       /\ TurnStarts =>
              LET body == previews'[Len(previews')].body
              IN  /\ body.prompt = Trim(page.prompt)
                  /\ page'.messages = Append(page.messages, Message("user", body.prompt))
                  /\ body.history = page.messages
                  /\ ModelMessages(body.history, body.prompt) = page'.messages
       /\ \A i \in 1..Len(previews), event \in PageEvents :
              StreamEvent(i, event) =>
                  page'.messages =
                      IF event.type = "clarification"
                      THEN Append(page.messages, Message("assistant", event.question))
                      ELSE page.messages
       /\ \A i \in 1..Len(previews) :
              RespondsNotOk(i) \/ RequestFails(i) => page'.messages = page.messages]_vars

\* The second turn was started with a reply to the question of the first.
RepliedToClarification ==
    /\ Len(previews) = 2
    /\ page.messages = << Message("user", <<"a">>), Message("assistant", <<"q">>),
                          Message("user", <<"b">>) >>
    /\ previews[2].body.history = << Message("user", <<"a">>), Message("assistant", <<"q">>) >>
    /\ previews[2].body.prompt = <<"b">>

(***************************************************************************)
(* The 'generating' flag of the edit page                                  *)
(***************************************************************************)

\* A terminal event is given to the page in this step: off the stream, or made
\* by the client for a response that is not OK or a request that failed.
TerminalEventHandled ==
    \E i \in 1..Len(previews) :
        \/ RespondsNotOk(i)
        \/ RequestFails(i)
        \/ \E event \in PageEvents : event.type # "progress" /\ StreamEvent(i, event)

\* The safety part of C37: a submitted prompt sets generating, no turn starts
\* while it is set, and a terminal event clears the progress hints.
GeneratingGuardsTheTurn ==
    /\ [][TurnStarts => ~page.generating /\ page'.generating]_vars
    /\ [][TerminalEventHandled => page'.progressHints = <<>> /\ ~page'.generating]_vars

\* C37: generating becomes true when a prompt is submitted and becomes false
\* again however the edit-preview request ends (a terminal event, a response
\* that is not OK, a network failure, or the stream closing with no terminal
\* event); while it is true no second turn starts, and every terminal event
\* clears the progress hints.
GeneratingAlwaysEnds ==
    /\ GeneratingGuardsTheTurn
    /\ page.generating ~> ~page.generating

====
